---- MODULE Spec2Model ----
(***************************************************************************)
(* Model of the budget distribution engine of budget_app/app.py:           *)
(* annual_total_from_period and compute_budget_distribution.               *)
(*                                                                         *)
(* Amounts are Python floats in the source.  They are modelled as          *)
(* fixed-point numbers: an integer counts quanta of the amount, sums and   *)
(* products of amounts are exact, and a division rounds its quotient to    *)
(* the nearest quantum, ties to even, as an IEEE-754 division rounds to    *)
(* the nearest representable value.  The threshold 1e-6 of the source is   *)
(* counted in the same quanta; how many quanta it is depends on the        *)
(* magnitude of the amounts of a call (a float's quantum grows with its    *)
(* exponent), so it is the input eps of a call: 0 when one quantum of the  *)
(* amounts already exceeds 1e-6, 1 when 1e-6 is one quantum.               *)
(*                                                                         *)
(* An optional value (Python None or a number) is a sequence of length 0   *)
(* or 1: None is << >> and the number v is <<v>>.  A dict is a function    *)
(* whose DOMAIN is its key set.  A period is a string; Python's None for a *)
(* period is PeriodNull, which differs from the string "None".             *)
(***************************************************************************)
EXTENDS Integers, Sequences, FiniteSets, TLC

\* ---------------------------------------------------------------- bounds
\* largest number of month slots passed as month_bids
MaxSlots == 4
\* the largest BUDGETENTRYID the modelled table gives a new row
MaxEntryId == 4
\* how many times the user commits a text in a cell
MaxEdits == 2
\* the most month entries of the year whose summary is computed
MaxMonths == 2
\* how many times the user commits a rejected text under the summary
MaxRejected == 1

\* ------------------------------------------------------ program constants
\* months = months_count or 12
DefaultMonths == 12
\* amount * 4.0
QuarterlyFactor == 4
\* amount * 52.0
WeeklyFactor == 52
\* expected_counts
ExpectedMonthly == 12
ExpectedYearly == 12
ExpectedWeekly == 12
ExpectedQuarterly == 4
\* 12 if months_count == 0 else months_count
ExpectedFallback == 12
\* expected_count or months_count or 12
TotalFallback == 12

\* --------------------------------------------------------------- values
None == << >>
Some(v) == <<v>>
PeriodNull == "<null>"

\* keys a caller may put in the overrides dict; the keys beyond the current
\* month_bids are overrides of slots that are not displayed
Bids == 1..MaxSlots
\* annual amounts tried (None or a number)
YearAmounts == {None, Some(-7), Some(100)}
\* periods tried: the four known ones, None, "", "None", an unknown string
Periods == {"Monthly", "Quarterly", "Yearly", "Weekly", PeriodNull, "", "None", "Other"}
\* override values tried (None or a number)
OverrideInputs == {None, Some(-60), Some(0), Some(80)}
\* the threshold 1e-6 counted in quanta of the amounts of a call
EpsQuanta == {0, 1}

\* ------------------------------------------------------- pure functions
Abs(x) == IF x < 0 THEN -x ELSE x

\* the sum of d[k] over the keys k of S
RECURSIVE SumOver(_, _)
SumOver(d, S) ==
    IF S = {} THEN 0
    ELSE LET k == CHOOSE x \in S : TRUE
         IN  d[k] + SumOver(d, S \ {k})

\* sum(d.values()) of a dict with numeric values
SumValues(d) == SumOver(d, DOMAIN d)

\* a / n for n > 0, rounded to the nearest quantum, ties to even
FloatDiv(a, n) ==
    LET q == a \div n
        r == a % n
    IN  IF 2 * r < n THEN q
        ELSE IF 2 * r > n THEN q + 1
        ELSE IF q % 2 = 0 THEN q ELSE q + 1

\* mutant: "months_count or 12" dropped, a slot count of 0 multiplies by 0
annual_total_from_period_NoDefault(amount, period, months_count) ==
    IF amount = None THEN 0
    ELSE IF period = "Yearly" THEN amount[1]
    ELSE IF period = "Quarterly" THEN amount[1] * QuarterlyFactor
    ELSE IF period = "Weekly" THEN amount[1] * WeeklyFactor
    ELSE amount[1] * months_count

\* months_count or 12 ; amount is None -> 0.0 ; period factors
annual_total_from_period(amount, period, months_count) ==
    LET months == IF months_count # 0 THEN months_count ELSE DefaultMonths
    IN  IF amount = None THEN 0
        ELSE IF period = "Yearly" THEN amount[1]
        ELSE IF period = "Quarterly" THEN amount[1] * QuarterlyFactor
        ELSE IF period = "Weekly" THEN amount[1] * WeeklyFactor
        ELSE amount[1] * months

\* mutant: "Yearly" is missing from expected_counts
expected_count_NoYearly(year_period, months_count) ==
    IF year_period = "Monthly" THEN ExpectedMonthly
    ELSE IF year_period = "Weekly" THEN ExpectedWeekly
    ELSE IF year_period = "Quarterly" THEN ExpectedQuarterly
    ELSE IF months_count = 0 THEN ExpectedFallback ELSE months_count

\* expected_counts.get(year_period, 12 if months_count == 0 else months_count)
expected_count(year_period, months_count) ==
    IF year_period = "Monthly" THEN ExpectedMonthly
    ELSE IF year_period = "Yearly" THEN ExpectedYearly
    ELSE IF year_period = "Weekly" THEN ExpectedWeekly
    ELSE IF year_period = "Quarterly" THEN ExpectedQuarterly
    ELSE IF months_count = 0 THEN ExpectedFallback ELSE months_count

\* mutant: "if val" in place of "if val is not None" drops a zero override
clean_overrides_Truthy(overrides) ==
    [b \in {k \in DOMAIN overrides : overrides[k] # None /\ overrides[k] # Some(0)}
        |-> overrides[b][1]]

\* {bid: float(val) for bid, val in overrides.items() if val is not None}
clean_overrides(overrides) ==
    [b \in {k \in DOMAIN overrides : overrides[k] # None} |-> overrides[b][1]]

\* [bid for bid in month_bids if bid not in overrides], overrides cleaned
missing_bids(month_bids, cleaned) ==
    SelectSeq(month_bids, LAMBDA b : b \notin DOMAIN cleaned)

\* mutant: only a period of None counts as no period
has_annual_OnlyNull(year_amount, year_period) ==
    year_amount # None /\ year_period # PeriodNull

\* year_amount is not None and (year_period not in (None, "", "None"))
has_annual(year_amount, year_period) ==
    year_amount # None /\ year_period \notin {PeriodNull, "", "None"}

\* bool(expected_count) and 0 < len(month_bids) < expected_count
limited_view(year_period, month_bids) ==
    LET ec == expected_count(year_period, Len(month_bids))
    IN  ec # 0 /\ 0 < Len(month_bids) /\ Len(month_bids) < ec

\* the set of slots of month_bids
BidSet(month_bids) == {month_bids[i] : i \in 1..Len(month_bids)}

\* mutant: every key of overrides gets a value, displayed or not
RawValues_AllKeys(month_bids, cleaned) ==
    [b \in BidSet(month_bids) \cup DOMAIN cleaned |->
        IF b \in DOMAIN cleaned THEN cleaned[b] ELSE 0]

\* values[bid] = overrides.get(bid, 0.0) for bid in month_bids
RawValues(month_bids, cleaned) ==
    [b \in BidSet(month_bids) |-> IF b \in DOMAIN cleaned THEN cleaned[b] ELSE 0]

\* mutant: the amounts are compared with their signs
OverLimit_NoAbs(sum_overrides, annual_total) ==
    sum_overrides > annual_total

\* mutant: the operands of the comparison are swapped
OverLimit_Swapped(sum_overrides, annual_total) ==
    Abs(annual_total) > Abs(sum_overrides)

\* over_limit = abs(sum_overrides) > abs(annual_total)
OverLimit(sum_overrides, annual_total) ==
    Abs(sum_overrides) > Abs(annual_total)

\* set(overrides.keys()) of the cleaned overrides
ExplicitBids(cleaned) == DOMAIN cleaned

\* if not has_annual: the overrides as they are, their sum, never over limit
PassThroughResult(month_bids, cleaned) ==
    [values        |-> RawValues(month_bids, cleaned),
     total_display |-> SumValues(cleaned),
     over_limit    |-> FALSE,
     explicit_bids |-> ExplicitBids(cleaned)]

\* mutant: over_limit is forced False in a limited view
LimitedResult_NeverOver(annual_total, month_bids, cleaned) ==
    [values        |-> RawValues(month_bids, cleaned),
     total_display |-> annual_total,
     over_limit    |-> FALSE,
     explicit_bids |-> ExplicitBids(cleaned)]

\* mutant: the else branch is taken, total_display = sum(values.values())
LimitedResult_SumTotal(annual_total, month_bids, cleaned) ==
    [values        |-> RawValues(month_bids, cleaned),
     total_display |-> SumValues(RawValues(month_bids, cleaned)),
     over_limit    |-> FALSE,
     explicit_bids |-> ExplicitBids(cleaned)]

\* if limited_view: the overrides as they are (x or 0.0 is x for a number);
\* year_amount is not None here, so total_display = annual_total and
\* over_limit stays as computed
LimitedResult(annual_total, month_bids, cleaned) ==
    [values        |-> RawValues(month_bids, cleaned),
     total_display |-> annual_total,
     over_limit    |-> OverLimit(SumValues(cleaned), annual_total),
     explicit_bids |-> ExplicitBids(cleaned)]

\* if over_limit: the overrides as they are and their sum
OverLimitResult(month_bids, cleaned) ==
    [values        |-> RawValues(month_bids, cleaned),
     total_display |-> SumValues(cleaned),
     over_limit    |-> TRUE,
     explicit_bids |-> ExplicitBids(cleaned)]

\* mutant: total_display is returned in place of sum_overrides
AllExplicitResult_AnnualTotal(annual_total, month_bids, cleaned) ==
    [values        |-> RawValues(month_bids, cleaned),
     total_display |-> annual_total,
     over_limit    |-> FALSE,
     explicit_bids |-> ExplicitBids(cleaned)]

\* if not missing_bids: every slot explicit; sum_overrides is returned as
\* the total, not total_display = annual_total
AllExplicitResult(annual_total, month_bids, cleaned) ==
    [values        |-> RawValues(month_bids, cleaned),
     total_display |-> SumValues(cleaned),
     over_limit    |-> FALSE,
     explicit_bids |-> ExplicitBids(cleaned)]

\* mutant: the residue is never added
DistributeRemainder_NoResidue(annual_total, month_bids, cleaned, eps_q) ==
    LET missing   == missing_bids(month_bids, cleaned)
        remainder == annual_total - SumValues(cleaned)
        share     == IF Len(missing) # 0 THEN FloatDiv(remainder, Len(missing)) ELSE 0
    IN  [b \in BidSet(month_bids) |->
            IF b \in DOMAIN cleaned THEN cleaned[b] ELSE share]

\* mutant: the residue goes to the last slot of month_bids, missing or not
DistributeRemainder_LastSlot(annual_total, month_bids, cleaned, eps_q) ==
    LET missing   == missing_bids(month_bids, cleaned)
        remainder == annual_total - SumValues(cleaned)
        share     == IF Len(missing) # 0 THEN FloatDiv(remainder, Len(missing)) ELSE 0
        values    == [b \in BidSet(month_bids) |->
                         IF b \in DOMAIN cleaned THEN cleaned[b] ELSE share]
        diff      == annual_total - SumValues(values)
        last      == month_bids[Len(month_bids)]
    IN  IF Len(missing) # 0 /\ Abs(diff) > eps_q
        THEN [values EXCEPT ![last] = @ + diff]
        ELSE values

\* mutant: the remainder is shared over all the displayed slots, not over the
\* missing ones
DistributeRemainder_ShareOfSlots(annual_total, month_bids, cleaned, eps_q) ==
    LET missing   == missing_bids(month_bids, cleaned)
        remainder == annual_total - SumValues(cleaned)
        share     == IF Len(missing) # 0 THEN FloatDiv(remainder, Len(month_bids)) ELSE 0
        values    == [b \in BidSet(month_bids) |->
                         IF b \in DOMAIN cleaned THEN cleaned[b] ELSE share]
        diff      == annual_total - SumValues(values)
        last      == missing[Len(missing)]
    IN  IF Len(missing) # 0 /\ Abs(diff) > eps_q
        THEN [values EXCEPT ![last] = @ + diff]
        ELSE values

\* the values of the remainder branch: share to every missing slot, then
\* the residue to the last missing slot when abs(diff) > 1e-6 (eps_q quanta)
DistributeRemainder(annual_total, month_bids, cleaned, eps_q) ==
    LET missing   == missing_bids(month_bids, cleaned)
        remainder == annual_total - SumValues(cleaned)
        share     == IF Len(missing) # 0 THEN FloatDiv(remainder, Len(missing)) ELSE 0
        values    == [b \in BidSet(month_bids) |->
                         IF b \in DOMAIN cleaned THEN cleaned[b] ELSE share]
        diff      == annual_total - SumValues(values)
        last      == missing[Len(missing)]
    IN  IF Len(missing) # 0 /\ Abs(diff) > eps_q
        THEN [values EXCEPT ![last] = @ + diff]
        ELSE values

\* the remainder branch
RemainderResult(annual_total, month_bids, cleaned, eps_q) ==
    [values        |-> DistributeRemainder(annual_total, month_bids, cleaned, eps_q),
     total_display |-> annual_total,
     over_limit    |-> FALSE,
     explicit_bids |-> ExplicitBids(cleaned)]

\* expected_count or months_count or 12
months_for_total(year_period, months_count) ==
    LET ec == expected_count(year_period, months_count)
    IN  IF ec # 0 THEN ec
        ELSE IF months_count # 0 THEN months_count
        ELSE TotalFallback

\* float(x) raises TypeError when x is None
float_raises(x) == x = None

\* mutant: the filter "if val is not None" dropped, float() is applied to
\* every value of overrides
coerced_values_Unfiltered(overrides) == {overrides[k] : k \in DOMAIN overrides}

\* the values float() is applied to in the comprehension that builds cleaned:
\* those that pass "if val is not None"
coerced_values(overrides) ==
    {overrides[k] : k \in {j \in DOMAIN overrides : overrides[j] # None}}

\* the call raises: float() is applied to a value it cannot convert
raises(overrides) == \E v \in coerced_values(overrides) : float_raises(v)

\* what the caller gets when the call raises instead of returning
Raised == [raised |-> "TypeError"]

\* the returned tuple (values, total_display, over_limit, set(overrides.keys()))
\* for amounts of which 1e-6 is eps_q quanta
Distribution(year_amount, year_period, month_bids, overrides, eps_q) ==
    LET annual_total == annual_total_from_period(year_amount, year_period,
                            months_for_total(year_period, Len(month_bids)))
        cleaned      == clean_overrides(overrides)
    IN  IF ~has_annual(year_amount, year_period)
        THEN PassThroughResult(month_bids, cleaned)
        ELSE IF limited_view(year_period, month_bids)
        THEN LimitedResult(annual_total, month_bids, cleaned)
        ELSE IF OverLimit(SumValues(cleaned), annual_total)
        THEN OverLimitResult(month_bids, cleaned)
        ELSE IF Len(missing_bids(month_bids, cleaned)) = 0
        THEN AllExplicitResult(annual_total, month_bids, cleaned)
        ELSE RemainderResult(annual_total, month_bids, cleaned, eps_q)

\* ------------------------------------------------------------------ state
VARIABLES
    year_amount,    \* argument year_amount: None or a number
    year_period,    \* argument year_period
    month_bids,     \* argument month_bids: the displayed slots, in order
    overrides,      \* argument overrides: dict slot -> None or a number
    eps,            \* 1e-6 counted in quanta of the amounts of the call
    result          \* what compute_budget_distribution returned for them

vars == <<year_amount, year_period, month_bids, overrides, eps, result>>

\* the state of the budget window and of the database behind it
VARIABLES
    store,                \* the rows of budgettable_v1
    base_budget_map,      \* self.base_budget_map: (cid, bid) -> (amount, period)
    edits,                \* self.edits: (bid, cid) -> {"amount", "period"}
    has_unsaved_changes,  \* self._has_unsaved_changes
    recalc_guard,         \* self._recalc_guard
    rows,                 \* the cells of the Budget row of each category
    category_totals,      \* self.category_totals: cid -> {"actual", "budget"}
    issued,               \* the persistence calls the last handler made, in order
    recalculating,        \* the category recalc_category is running for
    n_edits,              \* how many texts the user has committed in cells
    close_event           \* what the last handler, if closeEvent, did with the event

windowVars == <<base_budget_map, edits, has_unsaved_changes, recalc_guard, rows,
                category_totals, recalculating, n_edits>>

appVars == <<windowVars, issued, close_event>>

\* the table the summary header and the chart are computed from, and what
\* they show
VARIABLES
    current_headers,          \* self.current_headers
    sheet,                    \* the Reale and Budget rows of the categories, by column
    summary_cumulative_mode,  \* self.summary_cumulative_mode
    partial_index,            \* self.partial_budget_cb.currentIndex()
    summary,                  \* what _update_summary_header gave set_summary
    chart                     \* the bars update_summary_chart has drawn

sheetVars == <<current_headers, sheet, summary_cumulative_mode, partial_index,
               summary, chart>>

allVars == <<vars, store, appVars, sheetVars>>

\* no summary is shown
NoSheet ==
    /\ current_headers = << >>
    /\ sheet = << >>
    /\ summary_cumulative_mode = FALSE
    /\ partial_index = -1
    /\ summary = << >>
    /\ chart = << >>

\* no window is open
NoWindow ==
    /\ base_budget_map = << >>
    /\ edits = << >>
    /\ has_unsaved_changes = FALSE
    /\ recalc_guard = FALSE
    /\ rows = << >>
    /\ category_totals = << >>
    /\ recalculating = None
    /\ n_edits = 0

\* no window is open and the database is empty
NoApp ==
    /\ store = {}
    /\ issued = << >>
    /\ close_event = "none"
    /\ NoWindow
    /\ NoSheet

\* compute_budget_distribution is not being called
NoCall ==
    /\ year_amount = None
    /\ year_period = PeriodNull
    /\ month_bids = << >>
    /\ overrides = << >>
    /\ eps = 0
    /\ result = << >>

\* compute_budget_distribution on amounts of which 1e-6 is eps quanta
compute_budget_distribution(ya, yp, mb, ov) ==
    IF raises(ov) THEN Raised ELSE Distribution(ya, yp, mb, ov, eps)

\* the month slots 1..n in display order
SlotsUpTo(n) == [i \in 1..n |-> i]

\* a first call, for a category without overrides
Init ==
    /\ year_amount \in YearAmounts
    /\ year_period \in Periods
    /\ \E n \in 0..MaxSlots : month_bids = SlotsUpTo(n)
    /\ overrides = << >>
    /\ eps \in EpsQuanta
    /\ result = compute_budget_distribution(year_amount, year_period, month_bids, overrides)
    /\ NoApp

\* a call with one more entry in overrides; a caller fills the dict slot by
\* slot in increasing order (for bid in month_bids: overrides[bid] = ...)
AddOverride(bid, val) ==
    /\ \A k \in DOMAIN overrides : k < bid
    /\ overrides' = [b \in DOMAIN overrides \cup {bid} |->
                        IF b = bid THEN val ELSE overrides[b]]
    /\ UNCHANGED <<year_amount, year_period, month_bids, eps>>
    /\ UNCHANGED <<store, appVars, sheetVars>>
    /\ result' = compute_budget_distribution(year_amount, year_period, month_bids, overrides')

\* a call in which one override was replaced by a value of larger absolute
\* value, the others unchanged
RaiseOverride(bid, val) ==
    /\ bid \in DOMAIN overrides
    /\ overrides[bid] # None
    /\ val # None
    /\ Abs(val[1]) > Abs(overrides[bid][1])
    /\ overrides' = [overrides EXCEPT ![bid] = val]
    /\ UNCHANGED <<year_amount, year_period, month_bids, eps>>
    /\ UNCHANGED <<store, appVars, sheetVars>>
    /\ result' = compute_budget_distribution(year_amount, year_period, month_bids, overrides')

Next ==
    \/ \E bid \in Bids, val \in OverrideInputs : AddOverride(bid, val)
    \/ \E bid \in Bids, val \in OverrideInputs : RaiseOverride(bid, val)

\* the calls of compute_budget_distribution, no window being open
Spec == Init /\ [][Next]_allVars


\* ------------------------------------------------------------ repository
\* A row of budgettable_v1 is [id, bid, cid, period, amount]: BUDGETENTRYID,
\* BUDGETYEARID, CATEGID, PERIOD, AMOUNT.

\* the rows WHERE BUDGETYEARID=bid AND CATEGID=cid
matching_rows(st, bid, cid) == {r \in st : r.bid = bid /\ r.cid = cid}

\* cur.fetchone(): the first row of the scan, the one of smallest rowid
fetchone(found) == CHOOSE r \in found : \A q \in found : r.id <= q.id

\* the BUDGETENTRYID an INSERT gives the new row: one more than the largest
next_entry_id(st) ==
    IF st = {} THEN 1
    ELSE (CHOOSE r \in st : \A q \in st : r.id >= q.id).id + 1

\* a persistence command as the window issues it
UpsertCmd(bid, cid, period, amount) ==
    [op |-> "upsert", bid |-> bid, cid |-> cid, period |-> period, amount |-> Some(amount)]
DeleteCmd(bid, cid) ==
    [op |-> "delete", bid |-> bid, cid |-> cid, period |-> PeriodNull, amount |-> None]

\* mutant: INSERT without the SELECT that looks for the row of the key
upsert_budget_entry_AlwaysInsert(st, bid, cid, period, amount) ==
    st \cup {[id |-> next_entry_id(st), bid |-> bid, cid |-> cid,
              period |-> period, amount |-> amount]}

\* the table after upsert_budget_entry(budgetyearid, categid, period, amount)
upsert_budget_entry(st, bid, cid, period, amount) ==
    LET found == matching_rows(st, bid, cid)
    IN  IF found # {}
        THEN LET row == fetchone(found)
             IN  (st \ {row}) \cup {[row EXCEPT !.amount = amount, !.period = period]}
        ELSE st \cup {[id |-> next_entry_id(st), bid |-> bid, cid |-> cid,
                       period |-> period, amount |-> amount]}

\* the table after delete_budget_entry(budgetyearid, categid)
delete_budget_entry(st, bid, cid) == st \ matching_rows(st, bid, cid)

\* rows a budget table may hold when the program opens it; two of them have
\* the same key
StoredRows ==
    { [id |-> 1, bid |-> 0, cid |-> 1, period |-> "Yearly",  amount |-> 100],
      [id |-> 2, bid |-> 1, cid |-> 1, period |-> "Monthly", amount |-> 80],
      [id |-> 3, bid |-> 1, cid |-> 1, period |-> PeriodNull, amount |-> 0] }

\* the arguments the calls are made with
StoreBids == {0, 1}
StoreCats == {1}
StorePeriods == {"Monthly", "Yearly"}
StoreAmounts == {0, 80}

\* a table as the program finds it
StoreInit ==
    /\ store \in SUBSET StoredRows
    /\ issued = << >>
    /\ close_event = "none"
    /\ NoWindow
    /\ NoSheet
    /\ NoCall

\* one call of upsert_budget_entry
UpsertEntry(bid, cid, period, amount) ==
    /\ matching_rows(store, bid, cid) = {} => next_entry_id(store) <= MaxEntryId
    /\ store' = upsert_budget_entry(store, bid, cid, period, amount)
    /\ issued' = <<UpsertCmd(bid, cid, period, amount)>>
    /\ UNCHANGED <<vars, windowVars, close_event, sheetVars>>

\* one call of delete_budget_entry
DeleteEntry(bid, cid) ==
    /\ store' = delete_budget_entry(store, bid, cid)
    /\ issued' = <<DeleteCmd(bid, cid)>>
    /\ UNCHANGED <<vars, windowVars, close_event, sheetVars>>

StoreNext ==
    \/ \E bid \in StoreBids, cid \in StoreCats, period \in StorePeriods,
          amount \in StoreAmounts : UpsertEntry(bid, cid, period, amount)
    \/ \E bid \in StoreBids, cid \in StoreCats : DeleteEntry(bid, cid)

\* the calls of the repository on a table
SpecStore == StoreInit /\ [][StoreNext]_allVars


\* ---------------------------------------------------------------- window
\* Amounts are counted in cents: f"{x:,.2f}" and format_diff_value print a
\* whole number of cents as it is, and float() reads it back.

\* the text of a cell: empty, a number, or something float() rejects
Blank == [k |-> "blank", v |-> 0]
Num(v) == [k |-> "num", v |-> v]
Junk == [k |-> "junk", v |-> 0]

\* self.header_ids: the annual entry of the year, then its month entries
header_ids == <<0, 1, 2>>
year_bid == header_ids[1]
app_month_bids == Tail(header_ids)
AppMonths == BidSet(app_month_bids)

\* self.children_map: the main category 0, its child 2, and 1 the child of 2;
\* the main category 3 has no child
Categories == {0, 1, 2, 3}
children_map == [c \in Categories |-> IF c = 0 THEN {2} ELSE IF c = 2 THEN {1} ELSE {}]
\* self.root_ids: the categories without a parent
root_ids == {0, 3}
\* the categories add_category gives a Budget row: those of depth > 0
RowCats == UNION {children_map[c] : c \in Categories}

\* what the user picks among the PERIOD_CHOICES the period cell's editor offers
PeriodChoices == {"Monthly", "Yearly"}
\* what the user types into an amount cell
AmountTexts == {Blank, Num(0), Num(80), Junk}

\* the budget table the window is opened on
AppStoredRows ==
    { [id |-> 1, bid |-> 0, cid |-> 1, period |-> "Bi-Monthly", amount |-> 100],
      [id |-> 2, bid |-> 1, cid |-> 1, period |-> "Monthly",    amount |-> 80],
      [id |-> 3, bid |-> 2, cid |-> 2, period |-> PeriodNull,   amount |-> 80] }

\* the rows fetch_actuals_for_year returns for the year: the sum of the
\* transactions of a category in a month, the month given by its entry
ActualRows ==
    { [bid |-> 1, cid |-> 1, amount |-> -50],
      [bid |-> 2, cid |-> 1, amount |-> 20],
      [bid |-> 1, cid |-> 2, amount |-> 30],
      [bid |-> 1, cid |-> 3, amount |-> -40] }

\* actual_map: (categid, bid) -> amount of the rows of the year
actual_map ==
    [key \in {<<r.cid, r.bid>> : r \in ActualRows} |->
        (CHOOSE r \in ActualRows : <<r.cid, r.bid>> = key).amount]

\* actual_map.get((cid, bid), 0.0)
actual_of(cid, bid) == IF <<cid, bid>> \in DOMAIN actual_map THEN actual_map[<<cid, bid>>] ELSE 0

\* total_act: the actual of the annual entry plus those of the month entries
total_act(cid) == actual_of(cid, year_bid) + SumOver([b \in AppMonths |-> actual_of(cid, b)], AppMonths)

\* self.category_totals once add_category has run for every root: a main
\* category (depth 0) returns before the entry is written, a category below
\* it gets one when it has no children
leaf_totals(built) ==
    [cid \in {c \in RowCats : children_map[c] = {}} |->
        [actual |-> total_act(cid), budget |-> built[cid].total]]

\* budget_map: (CATEGID, BUDGETYEARID) -> (float(AMOUNT or 0), PERIOD or
\* "Monthly") of the rows of the year; a later row of a key replaces an earlier
load_budget_map(st) ==
    LET ofYear == {r \in st : r.bid \in BidSet(header_ids)}
    IN  [key \in {<<r.cid, r.bid>> : r \in ofYear} |->
            LET same == {r \in ofYear : <<r.cid, r.bid>> = key}
                last == CHOOSE r \in same : \A q \in same : r.id >= q.id
            IN  [amount |-> last.amount,
                 period |-> IF last.period \in {PeriodNull, ""} THEN "Monthly"
                            ELSE last.period]]

\* format_diff_value(val) if (val or is_explicit) else ""
month_text(val, is_explicit) == IF val # 0 \/ is_explicit THEN Num(val) ELSE Blank

\* the month cells, the total cell and its red background for a result d of
\* compute_budget_distribution
rendered(row, d) ==
    [row EXCEPT
        !.months   = [b \in AppMonths |-> month_text(d.values[b], b \in d.explicit_bids)],
        !.explicit = d.explicit_bids \cap AppMonths,
        !.total    = d.total_display,
        !.over     = d.over_limit]

\* the Budget row add_category builds for a category from budget_map
add_category(cid, budget_map) ==
    LET has_year == <<cid, year_bid>> \in DOMAIN budget_map
        year_amt == IF has_year THEN Some(budget_map[<<cid, year_bid>>].amount) ELSE None
        year_per == IF has_year THEN budget_map[<<cid, year_bid>>].period ELSE ""
        ovr == [b \in {m \in AppMonths : <<cid, m>> \in DOMAIN budget_map} |->
                    Some(budget_map[<<cid, b>>].amount)]
        d == compute_budget_distribution(year_amt, year_per, app_month_bids, ovr)
    IN  rendered([year     |-> IF year_amt = None THEN Blank ELSE Num(year_amt[1]),
                  period   |-> year_per,
                  months   |-> << >>,
                  explicit |-> {},
                  total    |-> 0,
                  over     |-> FALSE], d)

\* self.edits is a dict: its entries in the order their keys were first set
has_edit(ed, key) == \E i \in DOMAIN ed : ed[i].key = key
edit_of(ed, key) == ed[CHOOSE i \in DOMAIN ed : ed[i].key = key]
\* mutant: every assignment adds an entry, a key already present included
set_edit_Append(ed, key, amount, period) ==
    Append(ed, [key |-> key, amount |-> amount, period |-> period])

\* self.edits[key] = {"amount": amount, "period": period}
set_edit(ed, key, amount, period) ==
    LET entry == [key |-> key, amount |-> amount, period |-> period]
    IN  IF has_edit(ed, key)
        THEN [i \in DOMAIN ed |-> IF ed[i].key = key THEN entry ELSE ed[i]]
        ELSE Append(ed, entry)

\* mutant: the base stored period is preferred to the period cell and the edit
recalc_year_per_BaseFirst(cid, cells, ed, base) ==
    IF <<cid, year_bid>> \in DOMAIN base THEN base[<<cid, year_bid>>].period
    ELSE IF cells[cid].period # "" THEN cells[cid].period
    ELSE IF has_edit(ed, <<year_bid, cid>>) /\ edit_of(ed, <<year_bid, cid>>).period # ""
    THEN edit_of(ed, <<year_bid, cid>>).period
    ELSE ""

\* recalc_category: the period of the category, the period cell first
recalc_year_per(cid, cells, ed, base) ==
    IF cells[cid].period # "" THEN cells[cid].period
    ELSE IF has_edit(ed, <<year_bid, cid>>) /\ edit_of(ed, <<year_bid, cid>>).period # ""
    THEN edit_of(ed, <<year_bid, cid>>).period
    ELSE IF <<cid, year_bid>> \in DOMAIN base THEN base[<<cid, year_bid>>].period
    ELSE ""

\* mutant: the annual amount is read from the base entry only
recalc_year_amt_BaseOnly(cid, ed, base) ==
    IF <<cid, year_bid>> \in DOMAIN base THEN Some(base[<<cid, year_bid>>].amount)
    ELSE None

\* recalc_category: the annual amount, the edit before the base entry
recalc_year_amt(cid, ed, base) ==
    IF has_edit(ed, <<year_bid, cid>>) THEN edit_of(ed, <<year_bid, cid>>).amount
    ELSE IF <<cid, year_bid>> \in DOMAIN base THEN Some(base[<<cid, year_bid>>].amount)
    ELSE None

\* mutant: a cleared slot falls back to the amount of the base entry
recalc_overrides_BaseFallback(cid, ed, base) ==
    LET edited(b) == has_edit(ed, <<b, cid>>) /\ edit_of(ed, <<b, cid>>).amount # None
        stored(b) == <<cid, b>> \in DOMAIN base
    IN  [b \in {m \in AppMonths : edited(m) \/ stored(m)} |->
            IF edited(b) THEN edit_of(ed, <<b, cid>>).amount
            ELSE Some(base[<<cid, b>>].amount)]

\* recalc_category: the overrides, an edit before the base entry and no
\* override for a slot whose edit has a null amount
recalc_overrides(cid, ed, base) ==
    LET edited(b) == has_edit(ed, <<b, cid>>)
        stored(b) == <<cid, b>> \in DOMAIN base
        kept == {m \in AppMonths :
                    IF edited(m) THEN edit_of(ed, <<m, cid>>).amount # None
                    ELSE stored(m)}
    IN  [b \in kept |->
            IF edited(b) THEN edit_of(ed, <<b, cid>>).amount
            ELSE Some(base[<<cid, b>>].amount)]

\* the Budget row of the category as recalc_category writes it
recalc_row(cid, cells, ed, base) ==
    rendered(cells[cid],
             compute_budget_distribution(recalc_year_amt(cid, ed, base),
                                         recalc_year_per(cid, cells, ed, base),
                                         app_month_bids,
                                         recalc_overrides(cid, ed, base)))


\* mutant: on_item_changed without the test of the guard
ignores_change_Never(guard) == FALSE

\* "if getattr(self, '_recalc_guard', False): return"
ignores_change(guard) == guard

\* the call recalc_category(cid), the row being cells and self.edits being ed,
\* up to its last write into the Budget row: nothing when the guard is set,
\* else the guard is set and the row is written again
RecalcCall(cid, cells, ed) ==
    IF recalc_guard
    THEN /\ rows' = cells
         /\ UNCHANGED <<recalc_guard, recalculating>>
    ELSE /\ recalc_guard' = TRUE
         /\ recalculating' = Some(cid)
         /\ rows' = [cells EXCEPT ![cid] = recalc_row(cid, cells, ed, base_budget_map)]

\* on_item_changed returns without an edit
NoEdit(cells) ==
    /\ rows' = cells
    /\ UNCHANGED <<edits, has_unsaved_changes, recalc_guard, recalculating>>

\* mutant: the edit is recorded without "self._set_unsaved_changes(True)"
RecordEdit_FlagUnset(cid, key, amount, period, cells) ==
    LET ed == set_edit(edits, key, amount, period)
    IN  /\ edits' = ed
        /\ UNCHANGED has_unsaved_changes
        /\ RecalcCall(cid, cells, ed)

\* on_item_changed records an edit and recomputes the category
RecordEdit(cid, key, amount, period, cells) ==
    LET ed == set_edit(edits, key, amount, period)
    IN  /\ edits' = ed
        /\ has_unsaved_changes' = TRUE
        /\ RecalcCall(cid, cells, ed)

\* mutant: a period edit keeps the amount of the pending edit of the annual
\* slot, a null amount included, and reads the cell only without one
on_item_changed_PeriodKeepsAmount(kind, cid, bid, cells) ==
    IF ignores_change(recalc_guard) THEN NoEdit(cells)
    ELSE IF kind = "budget"
    THEN LET text == IF bid = year_bid THEN cells[cid].year ELSE cells[cid].months[bid]
             key  == <<bid, cid>>
             period ==
                IF bid # year_bid THEN "Monthly"
                ELSE IF has_edit(edits, key) /\ edit_of(edits, key).period # ""
                THEN edit_of(edits, key).period
                ELSE IF cells[cid].period # "" THEN cells[cid].period
                ELSE "Monthly"
         IN  IF text = Junk THEN NoEdit(cells)
             ELSE RecordEdit(cid, key, IF text = Blank THEN None ELSE Some(text.v),
                             period, cells)
    ELSE LET val == IF cells[cid].period = "" THEN "Monthly" ELSE cells[cid].period
             amount_val == IF cells[cid].year.k = "num" THEN cells[cid].year.v ELSE 0
             kept == IF has_edit(edits, <<year_bid, cid>>)
                     THEN edit_of(edits, <<year_bid, cid>>).amount
                     ELSE Some(amount_val)
         IN  RecordEdit(cid, <<year_bid, cid>>, kept, val, cells)

\* on_item_changed(item) for the item of kind "budget" (bid the annual or a
\* month entry) or "budget_period" of the category, cells being the rows with
\* the changed text in them
on_item_changed(kind, cid, bid, cells) ==
    IF ignores_change(recalc_guard) THEN NoEdit(cells)
    ELSE IF kind = "budget"
    THEN LET text == IF bid = year_bid THEN cells[cid].year ELSE cells[cid].months[bid]
             key  == <<bid, cid>>
             period ==
                IF bid # year_bid THEN "Monthly"
                ELSE IF has_edit(edits, key) /\ edit_of(edits, key).period # ""
                THEN edit_of(edits, key).period
                ELSE IF cells[cid].period # "" THEN cells[cid].period
                ELSE "Monthly"
         IN  IF text = Junk THEN NoEdit(cells)
             ELSE RecordEdit(cid, key, IF text = Blank THEN None ELSE Some(text.v),
                             period, cells)
    ELSE LET val == IF cells[cid].period = "" THEN "Monthly" ELSE cells[cid].period
             amount_val == IF cells[cid].year.k = "num" THEN cells[cid].year.v ELSE 0
         IN  RecordEdit(cid, <<year_bid, cid>>, Some(amount_val), val, cells)

\* the window is open and no handler is running
Idle == recalculating = None /\ close_event # "accepted"

\* the user commits a text in the annual or a month cell of a Budget row; a
\* month cell is edited in a plain line editor (ButtonDelegate has no editor
\* of its own), which takes any text
EditAmount(cid, bid, text) ==
    /\ Idle
    /\ n_edits < MaxEdits
    /\ text = Junk => bid # year_bid
    /\ n_edits' = n_edits + 1
    /\ LET cells == IF bid = year_bid
                    THEN [rows EXCEPT ![cid].year = text]
                    ELSE [rows EXCEPT ![cid].months[bid] = text]
       IN  on_item_changed("budget", cid, bid, cells)
    /\ issued' = << >>
    /\ close_event' = "none"
    /\ UNCHANGED <<store, base_budget_map, category_totals, vars, sheetVars>>

\* the user picks a period in the period cell of a Budget row
EditPeriod(cid, choice) ==
    /\ Idle
    /\ n_edits < MaxEdits
    /\ n_edits' = n_edits + 1
    /\ on_item_changed("budget_period", cid, year_bid, [rows EXCEPT ![cid].period = choice])
    /\ issued' = << >>
    /\ close_event' = "none"
    /\ UNCHANGED <<store, base_budget_map, category_totals, vars, sheetVars>>

\* itemChanged of a month cell recalc_category has written, delivered to
\* on_item_changed before recalc_category returns
ChangeNotified(cid, bid) ==
    /\ recalculating = Some(cid)
    /\ on_item_changed("budget", cid, bid, rows)
    /\ UNCHANGED <<store, base_budget_map, category_totals, issued, n_edits,
                   close_event, vars, sheetVars>>

\* recalc_category returns: the rollup entry of a leaf category, then
\* "finally: self._recalc_guard = False"
RecalcReturn ==
    /\ recalculating # None
    /\ LET cid == recalculating[1]
       IN  category_totals' =
              IF children_map[cid] = {}
              THEN [category_totals EXCEPT
                       ![cid] = [actual |-> total_act(cid), budget |-> rows[cid].total]]
              ELSE category_totals
    /\ recalc_guard' = FALSE
    /\ recalculating' = None
    /\ UNCHANGED <<store, base_budget_map, edits, has_unsaved_changes, rows,
                   issued, n_edits, close_event, vars, sheetVars>>

\* mutant: refresh without "self.edits.clear()" and the reset of the flag
refresh_KeepEdits(st) ==
    LET budget_map == load_budget_map(st)
        built == [cid \in RowCats |-> add_category(cid, budget_map)]
    IN  /\ UNCHANGED <<edits, has_unsaved_changes>>
        /\ base_budget_map' = budget_map
        /\ rows' = built
        /\ category_totals' = leaf_totals(built)
        /\ UNCHANGED <<recalc_guard, recalculating, n_edits>>

\* refresh() on the table st
refresh(st) ==
    LET budget_map == load_budget_map(st)
        built == [cid \in RowCats |-> add_category(cid, budget_map)]
    IN  /\ edits' = << >>
        /\ has_unsaved_changes' = FALSE
        /\ base_budget_map' = budget_map
        /\ rows' = built
        /\ category_totals' = leaf_totals(built)
        /\ UNCHANGED <<recalc_guard, recalculating, n_edits>>

\* refresh() called outside a save: by the Refresh button, by
\* _on_year_changed, by _on_account_check_changed and by select_db once the
\* file opens (the model has one year and one database to load)
Reload ==
    /\ Idle
    /\ refresh(store)
    /\ issued' = << >>
    /\ close_event' = "none"
    /\ UNCHANGED <<store, vars, sheetVars>>

\* mutant: a cleared amount is saved as an upsert of 0.0
save_command_UpsertZero(e) ==
    UpsertCmd(e.key[1], e.key[2], e.period, IF e.amount = None THEN 0 ELSE e.amount[1])

\* the call save_budgets makes for one entry of self.edits
save_command(e) ==
    IF e.amount = None THEN DeleteCmd(e.key[1], e.key[2])
    ELSE UpsertCmd(e.key[1], e.key[2], e.period, e.amount[1])

\* the table after the call c
after_command(st, c) ==
    IF c.op = "delete" THEN delete_budget_entry(st, c.bid, c.cid)
    ELSE upsert_budget_entry(st, c.bid, c.cid, c.period, c.amount[1])

\* the table after the calls for the first n entries of ed, in their order
RECURSIVE after_commands(_, _, _)
after_commands(st, ed, n) ==
    IF n = 0 THEN st
    ELSE after_command(after_commands(st, ed, n - 1), save_command(ed[n]))

\* save_budgets with nothing to save
SaveNoChanges ==
    /\ Idle
    /\ edits = << >>
    /\ issued' = << >>
    /\ close_event' = "none"
    /\ UNCHANGED <<store, windowVars, vars, sheetVars>>

\* save_budgets, the confirmation answered with No
SaveDeclined ==
    /\ Idle
    /\ edits # << >>
    /\ issued' = << >>
    /\ close_event' = "none"
    /\ UNCHANGED <<store, windowVars, vars, sheetVars>>

\* save_budgets, every call succeeding: the calls, then refresh()
SaveOk ==
    /\ Idle
    /\ edits # << >>
    /\ issued' = [i \in DOMAIN edits |-> save_command(edits[i])]
    /\ store' = after_commands(store, edits, Len(edits))
    /\ refresh(store')
    /\ close_event' = "none"
    /\ UNCHANGED <<vars, sheetVars>>

\* mutant: the overlay is cleared whether the calls succeeded or not
SaveFails_ClearsEdits(failing) ==
    /\ Idle
    /\ failing \in DOMAIN edits
    /\ issued' = [i \in 1..failing |-> save_command(edits[i])]
    /\ store' = after_commands(store, edits, failing - 1)
    /\ edits' = << >>
    /\ has_unsaved_changes' = FALSE
    /\ close_event' = "none"
    /\ UNCHANGED <<base_budget_map, recalc_guard, rows, category_totals,
                   recalculating, n_edits, vars, sheetVars>>

\* save_budgets, the call for the entry number failing raising: the calls before
\* it are committed, the exception is shown, refresh() is not reached
SaveFails(failing) ==
    /\ Idle
    /\ failing \in DOMAIN edits
    /\ issued' = [i \in 1..failing |-> save_command(edits[i])]
    /\ store' = after_commands(store, edits, failing - 1)
    /\ close_event' = "none"
    /\ UNCHANGED <<windowVars, vars, sheetVars>>

\* what the user does with the dialog closeEvent shows: one of its three
\* buttons, or the dialog dismissed without one
SaveButton == "Salva"
DiscardButton == "Esci senza salvare"
CancelButton == "Annulla"
NoButton == "(none)"

\* mutant: the event is accepted whenever the user chose to save
close_accepts_AfterAnySave(clicked, after) ==
    clicked = SaveButton \/ clicked = DiscardButton

\* closeEvent reaches super().closeEvent(event), the overlay being after when
\* save_budgets has returned: not when Salva was clicked and the overlay is
\* not empty, not on Annulla, not on anything else but Esci senza salvare
close_accepts(clicked, after) ==
    IF clicked = SaveButton THEN after = << >>
    ELSE IF clicked = CancelButton THEN FALSE
    ELSE clicked = DiscardButton

\* event.accept() by super().closeEvent(event), or event.ignore()
close_outcome(clicked, after) ==
    IF close_accepts(clicked, after) THEN "accepted" ELSE "ignored"

\* closeEvent with an empty overlay: no dialog
CloseUnchanged ==
    /\ Idle
    /\ edits = << >>
    /\ close_event' = "accepted"
    /\ issued' = << >>
    /\ UNCHANGED <<store, windowVars, vars, sheetVars>>

\* closeEvent with pending edits, the user clicking Esci senza salvare or
\* Annulla or dismissing the dialog
CloseWithout(clicked) ==
    /\ Idle
    /\ edits # << >>
    /\ close_event' = close_outcome(clicked, edits)
    /\ issued' = << >>
    /\ UNCHANGED <<store, windowVars, vars, sheetVars>>

\* closeEvent, Salva clicked and the confirmation of save_budgets answered
\* with No
CloseSaveDeclined ==
    /\ Idle
    /\ edits # << >>
    /\ close_event' = close_outcome(SaveButton, edits)
    /\ issued' = << >>
    /\ UNCHANGED <<store, windowVars, vars, sheetVars>>

\* closeEvent, Salva clicked and save_budgets making every call and refresh()
CloseSaveOk ==
    /\ Idle
    /\ edits # << >>
    /\ issued' = [i \in DOMAIN edits |-> save_command(edits[i])]
    /\ store' = after_commands(store, edits, Len(edits))
    /\ refresh(store')
    /\ close_event' = close_outcome(SaveButton, edits')
    /\ UNCHANGED <<vars, sheetVars>>

\* closeEvent, Salva clicked and the call of save_budgets for the entry
\* number failing raising
CloseSaveFails(failing) ==
    /\ Idle
    /\ failing \in DOMAIN edits
    /\ issued' = [i \in 1..failing |-> save_command(edits[i])]
    /\ store' = after_commands(store, edits, failing - 1)
    /\ close_event' = close_outcome(SaveButton, edits)
    /\ UNCHANGED <<windowVars, vars, sheetVars>>

\* the window after its construction on the table AppStoredRows
AppInit ==
    /\ store = AppStoredRows
    /\ issued = << >>
    /\ edits = << >>
    /\ has_unsaved_changes = FALSE
    /\ recalc_guard = FALSE
    /\ recalculating = None
    /\ n_edits = 0
    /\ close_event = "none"
    /\ NoCall
    /\ NoSheet
    /\ base_budget_map = load_budget_map(store)
    /\ rows = [cid \in RowCats |-> add_category(cid, base_budget_map)]
    /\ category_totals = leaf_totals(rows)

AppNext ==
    \/ \E cid \in RowCats, bid \in BidSet(header_ids), text \in AmountTexts :
          EditAmount(cid, bid, text)
    \/ \E cid \in RowCats, choice \in PeriodChoices : EditPeriod(cid, choice)
    \/ \E cid \in RowCats, bid \in AppMonths : ChangeNotified(cid, bid)
    \/ RecalcReturn
    \/ Reload
    \/ SaveNoChanges
    \/ SaveDeclined
    \/ SaveOk
    \/ \E failing \in 1..MaxEdits : SaveFails(failing)

\* the budget window and its database
SpecApp == AppInit /\ [][AppNext]_allVars

\* the window from its construction to its close, the user editing,
\* reloading and closing it, and saving from the dialog of the close
CloseNext ==
    \/ \E cid \in RowCats, bid \in BidSet(header_ids), text \in AmountTexts :
          EditAmount(cid, bid, text)
    \/ \E cid \in RowCats, choice \in PeriodChoices : EditPeriod(cid, choice)
    \/ \E cid \in RowCats, bid \in AppMonths : ChangeNotified(cid, bid)
    \/ RecalcReturn
    \/ Reload
    \/ CloseUnchanged
    \/ \E clicked \in {DiscardButton, CancelButton, NoButton} : CloseWithout(clicked)
    \/ CloseSaveDeclined
    \/ CloseSaveOk
    \/ \E failing \in 1..MaxEdits : CloseSaveFails(failing)

SpecClose == AppInit /\ [][CloseNext]_allVars

\* ---------------------------------------------------- summary and chart
\* The summary header and the chart are computed from the texts of the cells
\* of the table and from self.category_totals.  Column c of the code is the
\* entry c + 1 of a sequence here.

\* ITALIAN_MONTH_NAMES, in calendar order
MonthNames ==
    <<"Gennaio", "Febbraio", "Marzo", "Aprile", "Maggio", "Giugno", "Luglio",
      "Agosto", "Settembre", "Ottobre", "Novembre", "Dicembre">>

\* the name of the annual entry of the year shown
YearName == "2025"

\* header_names as refresh builds it for a year with n month entries
header_names_for(n) ==
    <<"Category / RowType", YearName, "Period">> \o SubSeq(MonthNames, 1, n) \o <<"TOTAL">>

\* header_names[col]
name_of(header_names, col) == header_names[col + 1]

\* str(name).upper() == "TOTAL"
is_total_name(name) == name \in {"TOTAL", "Total", "total"}

\* the elements of a set of columns in increasing order (range(...) order)
RECURSIVE in_order(_)
in_order(cols) ==
    IF cols = {} THEN << >>
    ELSE LET first == CHOOSE c \in cols : \A d \in cols : c <= d
         IN  <<first>> \o in_order(cols \ {first})

\* float(raw) if raw else 0.0, 0.0 on ValueError
parse_amount(text) == IF text.k = "num" THEN text.v ELSE 0

\* _compute_summary_totals: for every column but "Period", the sums of the
\* Reale and of the Budget cells of all the categories of the table
compute_summary_totals(header_names, cells) ==
    [col \in {c \in 1..(Len(header_names) - 1) : name_of(header_names, c) # "Period"} |->
        LET actual == SumOver([cid \in DOMAIN cells |-> parse_amount(cells[cid].Reale[col])],
                              DOMAIN cells)
            budget == SumOver([cid \in DOMAIN cells |-> parse_amount(cells[cid].Budget[col])],
                              DOMAIN cells)
        IN  [actual |-> actual, budget |-> budget, diff |-> actual - budget]]

\* mutant: the annual column is not left out
ordered_columns_WithAnnual(header_names) ==
    in_order({c \in 1..(Len(header_names) - 1) : name_of(header_names, c) # "Period"})

\* ordered_columns: the columns but the first two and "Period"
ordered_columns(header_names) ==
    in_order({c \in 1..(Len(header_names) - 1) :
                 name_of(header_names, c) # "Period" /\ c # 1})

\* month_columns: the ordered columns but "TOTAL"
month_columns(header_names) ==
    SelectSeq(ordered_columns(header_names),
              LAMBDA c : ~is_total_name(name_of(header_names, c)))

\* running_actual, running_budget or running_diff after the first k month columns
RECURSIVE running(_, _, _, _)
running(by_col, months, k, field) ==
    IF k = 0 THEN 0
    ELSE running(by_col, months, k - 1, field) + by_col[months[k]][field]

\* the position of a column in a sequence of columns
position(cols, col) == CHOOSE i \in DOMAIN cols : cols[i] = col

\* what _update_summary_header gives set_summary: for every ordered column,
\* and for the last column of the model, the actual, budget and diff values
\* whose texts the header shows
update_summary_header(header_names, cells, cumulative_mode) ==
    LET totals  == compute_summary_totals(header_names, cells)
        ordered == ordered_columns(header_names)
        months  == month_columns(header_names)
        orderedSet == {ordered[i] : i \in DOMAIN ordered}
        monthSet   == {months[i] : i \in DOMAIN months}
        total_col_index == Len(header_names) - 1
        sums(k) == [actual |-> running(totals, months, k, "actual"),
                    budget |-> running(totals, months, k, "budget"),
                    diff   |-> running(totals, months, k, "diff")]
        own(col) == IF col \in DOMAIN totals THEN totals[col]
                    ELSE [actual |-> 0, budget |-> 0, diff |-> 0]
        cumulative ==
            [col \in monthSet \cup (orderedSet \cap {total_col_index}) |->
                IF col \in monthSet THEN sums(position(months, col))
                ELSE IF Len(months) # 0 THEN sums(Len(months))
                ELSE own(col)]
        shown(col) ==
            LET use_cumulative_display ==
                    \/ cumulative_mode
                    \/ IF col \in orderedSet
                       THEN is_total_name(name_of(header_names, col)) /\ Len(months) # 0
                       ELSE Len(months) # 0 /\ col \in DOMAIN cumulative
            IN  IF use_cumulative_display /\ col \in DOMAIN cumulative
                THEN cumulative[col]
                ELSE own(col)
    IN  [col \in orderedSet \cup {total_col_index} |-> shown(col)]

\* self._partial_budget_month_columns: the columns after the first two but
\* "Period" and "TOTAL"
partial_month_columns(header_names) ==
    in_order({c \in 2..(Len(header_names) - 1) :
                 /\ name_of(header_names, c) # "Period"
                 /\ ~is_total_name(name_of(header_names, c))})

\* mutant: the cutoff column is left out, month_columns[:idx]
partial_target_columns_Exclusive(header_names, index) ==
    LET months == partial_month_columns(header_names)
        idx == IF index < 0 THEN Len(months) - 1
               ELSE IF index < Len(months) - 1 THEN index ELSE Len(months) - 1
    IN  {months[i] : i \in 1..idx}

\* target_columns = month_columns[: idx + 1], idx being the current index of
\* the combo box, the last month when it has none
partial_target_columns(header_names, index) ==
    LET months == partial_month_columns(header_names)
        idx == IF index < 0 THEN Len(months) - 1
               ELSE IF index < Len(months) - 1 THEN index ELSE Len(months) - 1
    IN  {months[i] : i \in 1..(idx + 1)}

\* _compute_partial_diff_values: the sums of the Reale and of the Budget cells
\* of the target columns over the categories of category_totals
compute_partial_diff_values(header_names, index, cells, totals) ==
    LET target == partial_target_columns(header_names, index)
        listed == DOMAIN totals \cap DOMAIN cells
        of(kind) == SumOver([cid \in listed |->
                                SumOver([col \in target |-> parse_amount(cells[cid][kind][col])],
                                        target)],
                            listed)
    IN  IF Len(partial_month_columns(header_names)) = 0
        THEN [actual |-> 0, budget |-> 0, gap |-> 0]
        ELSE [actual |-> of("Reale"), budget |-> of("Budget"),
              gap |-> of("Reale") - of("Budget")]

\* mutant: the amounts below zero are added to the expense bucket without
\* their sign
bucket_Abs(totals, field, income) ==
    LET chosen == {cid \in DOMAIN totals : (totals[cid][field] >= 0) = income}
    IN  SumOver([cid \in chosen |-> Abs(totals[cid][field])], chosen)

\* totals["actual_income"] and the like: the sum of the field over the
\* entries where it is >= 0 (income), or over those where it is < 0
bucket(totals, field, income) ==
    LET chosen == {cid \in DOMAIN totals : (totals[cid][field] >= 0) = income}
    IN  SumOver([cid \in chosen |-> totals[cid][field]], chosen)

\* what update_summary_chart draws: the four buckets and the partial sums
update_summary_chart(header_names, index, cells, totals) ==
    LET partial == compute_partial_diff_values(header_names, index, cells, totals)
    IN  [actual_income  |-> bucket(totals, "actual", TRUE),
         actual_expense |-> bucket(totals, "actual", FALSE),
         budget_income  |-> bucket(totals, "budget", TRUE),
         budget_expense |-> bucket(totals, "budget", FALSE),
         partial_actual |-> partial.actual,
         partial_budget |-> partial.budget,
         partial_gap    |-> partial.gap]

\* the categories with rows in the table of the summary: 2 with its children
\* 1 and 4; the leaves 1 and 4 are those of category_totals
SheetCats == {1, 2, 4}
SheetLeaves == {1, 4}

\* what refresh writes in a month cell of a Budget row: a number or nothing
BudgetTexts == {Blank, Num(80)}
\* display_total of a Budget row with month columns
BudgetTotals == {-50, 0, 80}

\* the Reale and Budget rows of a category over the columns of header_names:
\* the annual cell, the period cell, the month cells and the total cell, the
\* total of the Reale row being the sum of its months
sheet_rows(header_names, year_text, actuals, budgets, budget_total) ==
    LET last   == Len(header_names) - 1
        months == 3..(last - 1)
    IN  [Reale  |-> [col \in 1..last |->
                        IF col = 1 THEN Num(0)
                        ELSE IF col = 2 THEN Blank
                        ELSE IF col = last
                        THEN Num(SumOver([c \in months |-> actuals[c]], months))
                        ELSE Num(actuals[col])],
         Budget |-> [col \in 1..last |->
                        IF col = 1 THEN year_text
                        ELSE IF col = 2 THEN Junk
                        ELSE IF col = last THEN Num(budget_total)
                        ELSE budgets[col]]]

\* the window after refresh() on a year with up to MaxMonths month entries:
\* the table, category_totals of its leaves, the summary and the chart
SummaryInit ==
    /\ \E n \in 0..MaxMonths :
          /\ current_headers = header_names_for(n)
          /\ partial_index \in (IF n = 0 THEN {-1} ELSE 0..(n - 1))
          /\ \E b1 \in [3..(n + 2) -> BudgetTexts],
                t1 \in (IF n = 0 THEN {0} ELSE BudgetTotals),
                t4 \in (IF n = 0 THEN {0} ELSE {-50, 80}) :
                sheet = [cid \in SheetCats |->
                            IF cid = 1
                            THEN sheet_rows(current_headers, Num(100),
                                            [c \in 3..(n + 2) |-> -50], b1, t1)
                            ELSE IF cid = 2
                            THEN sheet_rows(current_headers, Blank,
                                            [c \in 3..(n + 2) |-> 10],
                                            [c \in 3..(n + 2) |-> Num(20)], 20 * n)
                            ELSE sheet_rows(current_headers, Num(-7),
                                            [c \in 3..(n + 2) |-> 20],
                                            [c \in 3..(n + 2) |-> Blank], t4)]
    /\ category_totals =
          [cid \in SheetLeaves |->
              [actual |-> parse_amount(sheet[cid].Reale[Len(current_headers) - 1]),
               budget |-> parse_amount(sheet[cid].Budget[Len(current_headers) - 1])]]
    /\ summary_cumulative_mode = FALSE
    /\ summary = update_summary_header(current_headers, sheet, summary_cumulative_mode)
    /\ chart = update_summary_chart(current_headers, partial_index, sheet, category_totals)
    /\ store = {}
    /\ issued = << >>
    /\ close_event = "none"
    /\ base_budget_map = << >>
    /\ edits = << >>
    /\ has_unsaved_changes = FALSE
    /\ recalc_guard = FALSE
    /\ rows = << >>
    /\ recalculating = None
    /\ n_edits = 0
    /\ NoCall

\* _on_summary_toggle_requested: the mode is switched and the header is
\* computed again
ToggleSummary ==
    /\ summary_cumulative_mode' = ~summary_cumulative_mode
    /\ summary' = update_summary_header(current_headers, sheet, summary_cumulative_mode')
    /\ UNCHANGED <<current_headers, sheet, partial_index, chart>>
    /\ UNCHANGED <<vars, store, appVars>>

\* _on_partial_budget_month_changed: the user picks another month in the
\* combo box and the chart is drawn again
SelectPartialMonth(index) ==
    /\ index \in 0..(Len(partial_month_columns(current_headers)) - 1)
    /\ index # partial_index
    /\ partial_index' = index
    /\ chart' = update_summary_chart(current_headers, index, sheet, category_totals)
    /\ UNCHANGED <<current_headers, sheet, summary_cumulative_mode, summary>>
    /\ UNCHANGED <<vars, store, appVars>>

\* on_item_changed on a month cell of a Budget row whose text is no number:
\* the handler returns at once, the text stays in the cell and neither the
\* summary nor the chart is computed again
EditRejected(cid, col) ==
    /\ n_edits < MaxRejected
    /\ cid \in DOMAIN sheet
    /\ col \in 3..(Len(current_headers) - 2)
    /\ sheet' = [sheet EXCEPT ![cid].Budget[col] = Junk]
    /\ n_edits' = n_edits + 1
    /\ UNCHANGED <<current_headers, summary_cumulative_mode, partial_index, summary, chart>>
    /\ UNCHANGED <<vars, store, issued, close_event>>
    /\ UNCHANGED <<base_budget_map, edits, has_unsaved_changes, recalc_guard, rows,
                   category_totals, recalculating>>

SummaryNext ==
    \/ ToggleSummary
    \/ \E cid \in SheetCats, col \in 3..(MaxMonths + 2) : EditRejected(cid, col)
    \/ \E index \in 0..(MaxMonths - 1) : SelectPartialMonth(index)

\* the summary header and the chart of a loaded table
SpecSummary == SummaryInit /\ [][SummaryNext]_allVars

\* ================================================================ claims
\* The quantities the claims speak of, stated from the inputs of the call.

\* the slots of month_slots
Slots == BidSet(month_bids)
\* the keys of overrides whose value is not null
NonNullKeys == {b \in DOMAIN overrides : overrides[b] # None}
\* the non-null overrides as numbers
NonNull == [b \in NonNullKeys |-> overrides[b][1]]
\* the sum of the non-null overrides
SumNonNull == SumOver(NonNull, NonNullKeys)
\* overrides.get(slot, 0.0) on the non-null overrides
OverrideOrZero(slot) == IF slot \in NonNullKeys THEN NonNull[slot] ELSE 0
\* an annual budget is set
AnnualSet == year_amount # None /\ year_period \notin {PeriodNull, "", "None"}
\* expected_count of the period, for the periods that have one
KnownPeriod == year_period \in {"Monthly", "Yearly", "Weekly", "Quarterly"}
ExpectedOfPeriod == IF year_period = "Quarterly" THEN 4 ELSE 12
\* limited view: 0 < len(month_slots) < expected_count
LimitedView ==
    AnnualSet /\ KnownPeriod /\ 0 < Len(month_bids) /\ Len(month_bids) < ExpectedOfPeriod
\* full view: an annual budget is set and the view is not limited
FullView == AnnualSet /\ ~LimitedView
\* the annualized total of the annual budget (an annual budget is set)
AnnualizedTotal ==
    LET a == year_amount[1]
    IN  IF year_period = "Yearly" THEN a
        ELSE IF year_period = "Quarterly" THEN 4 * a
        ELSE IF year_period = "Weekly" THEN 52 * a
        ELSE IF year_period = "Monthly" THEN 12 * a
        ELSE IF Len(month_bids) = 0 THEN 12 * a
        ELSE Len(month_bids) * a
\* the explicit commitments exceed the annualized budget in absolute value
Exceeds == Abs(SumNonNull) > Abs(AnnualizedTotal)
\* every displayed value is the raw override of its slot, 0.0 without one
ValuesAreRawOverrides ==
    /\ DOMAIN result.values = Slots
    /\ \A slot \in Slots : result.values[slot] = OverrideOrZero(slot)
\* the sum of the displayed values
SumOfValues == SumOver(result.values, DOMAIN result.values)

\* ---------------------------------------------------------------- C1
\* the inputs of scenario C: 100 Yearly, two slots, both overridden by 80
ScenarioC ==
    /\ year_amount = Some(100)
    /\ year_period = "Yearly"
    /\ month_bids = <<1, 2>>
    /\ NonNullKeys = {1, 2}
    /\ NonNull[1] = 80 /\ NonNull[2] = 80

\* C1 as stated: scenario C returns over_limit, the overrides as values and
\* display_total 160, the sum of the overrides.
C1_AsStated ==
    ScenarioC =>
        /\ result.over_limit = TRUE
        /\ result.values = (1 :> 80 @@ 2 :> 80)
        /\ result.total_display = 160

\* C1 amended: scenario C returns over_limit, the overrides as values and
\* display_total 100, the annualized total: two slots of the twelve expected
\* for Yearly is a limited view.
C1_ScenarioC ==
    ScenarioC =>
        /\ result.over_limit = TRUE
        /\ result.values = (1 :> 80 @@ 2 :> 80)
        /\ result.total_display = 100

C1_Witness == ScenarioC /\ result.over_limit

\* ---------------------------------------------------------------- C2
\* C2 as stated: in a limited view over_limit is False whatever the
\* overrides sum to.
C2_AsStated == LimitedView => result.over_limit = FALSE

\* C2 amended: in a limited view over_limit is the same test as in a full
\* view, true exactly when the absolute sum of the non-null overrides exceeds
\* the absolute annualized total.
C2_LimitedOverLimit == LimitedView => (result.over_limit <=> Exceeds)

C2_Witness == LimitedView /\ result.over_limit /\ Exceeds

\* ---------------------------------------------------------------- C3
\* C3: with an annual budget set and a full view, over_limit is true iff
\* abs(sum of the non-null overrides) > abs(annualized_total), whatever the
\* signs of the amounts.
C3_OverLimitIff == FullView => (result.over_limit <=> Exceeds)

\* a full view that is over the limit with a negative sum
C3_Witness ==
    /\ FullView /\ Len(month_bids) > 0
    /\ result.over_limit /\ SumNonNull < 0 /\ AnnualizedTotal > 0

\* ---------------------------------------------------------------- C4
\* this step replaces the non-null override of bid by a value of larger
\* absolute value and leaves every other override as it is
Raises(bid) ==
    /\ bid \in NonNullKeys
    /\ DOMAIN overrides' = DOMAIN overrides
    /\ \A b \in DOMAIN overrides \ {bid} : overrides'[b] = overrides[b]
    /\ overrides'[bid] # None
    /\ Abs(overrides'[bid][1]) > Abs(overrides[bid][1])
    /\ UNCHANGED <<year_amount, year_period, month_bids>>
\* the sum of the non-null overrides other than that of bid
SumOthers(bid) == SumNonNull - NonNull[bid]

\* C4 as stated: with an annual budget set and a full view, raising the
\* absolute value of one override never turns over_limit from True to False.
C4_AsStated ==
    [][\A bid \in Bids :
          (FullView /\ Raises(bid) /\ result.over_limit) => result'.over_limit]_vars

\* C4 amended: with an annual budget set and a full view, replacing one
\* override by a value of larger absolute value that does not have the sign
\* opposite to the sum of the other overrides never turns over_limit from True
\* to False.
C4_Monotone ==
    [][\A bid \in Bids :
          (/\ FullView
           /\ Raises(bid)
           /\ overrides'[bid][1] * SumOthers(bid) >= 0
           /\ result.over_limit) => result'.over_limit]_vars

\* a full view over the limit in which an override agrees in sign with the
\* others and the view was over the limit already with 0 in its place
C4_Witness ==
    /\ FullView /\ Len(month_bids) > 0
    /\ result.over_limit
    /\ \E bid \in NonNullKeys :
          /\ NonNull[bid] # 0
          /\ SumOthers(bid) # 0
          /\ NonNull[bid] * SumOthers(bid) > 0
          /\ Abs(SumOthers(bid)) > Abs(AnnualizedTotal)

\* ---------------------------------------------------------------- C5
\* C5: if annual_amount is null or annual_period is null or empty, every
\* slot's value is its override (0.0 without one), display_total is the sum
\* of the non-null overrides and over_limit is False.
C5_PassThrough ==
    (year_amount = None \/ year_period \in {PeriodNull, ""}) =>
        /\ ValuesAreRawOverrides
        /\ result.total_display = SumNonNull
        /\ result.over_limit = FALSE

\* an amount with an empty period, overrides that exceed it, a slot without
\* an override and an override that is null
C5_Witness ==
    /\ year_amount = Some(100) /\ year_period = ""
    /\ Abs(SumNonNull) > 100
    /\ Slots \cap NonNullKeys # {}
    /\ Slots \ DOMAIN overrides # {}
    /\ \E b \in DOMAIN overrides : overrides[b] = None

\* ---------------------------------------------------------------- C6
\* C6: in a limited view every value is the raw override of its slot (0.0
\* without one) and display_total is the full annualized total.
C6_LimitedView ==
    LimitedView =>
        /\ ValuesAreRawOverrides
        /\ result.total_display = AnnualizedTotal

\* a limited view whose displayed values do not add up to display_total
C6_Witness ==
    /\ LimitedView
    /\ Slots \cap NonNullKeys # {}
    /\ Slots \ NonNullKeys # {}
    /\ SumOfValues # result.total_display

\* ---------------------------------------------------------------- C7
\* C7: with an annual budget set, a full view, overrides not over the limit
\* and an override for every slot, display_total is the sum of the overrides
\* and every slot's value is its override.
C7_FullExplicit ==
    (FullView /\ ~Exceeds /\ Slots \subseteq NonNullKeys) =>
        /\ result.total_display = SumNonNull
        /\ \A slot \in Slots : result.values[slot] = NonNull[slot]

\* every slot pinned, below an annualized total that differs from their sum
C7_Witness ==
    /\ FullView /\ ~Exceeds
    /\ Len(month_bids) > 1 /\ Slots \subseteq NonNullKeys
    /\ SumNonNull # 0 /\ SumNonNull # AnnualizedTotal
    /\ result.total_display = SumNonNull

\* ---------------------------------------------------------------- C8
\* a full view, not over the limit, with a slot that has no override
Partial == FullView /\ ~Exceeds /\ Slots \ NonNullKeys # {}

\* C8 as stated: in a full, not over-limit view with a slot without override
\* the returned values add up to display_total, the annualized total.
C8_AsStated ==
    Partial =>
        /\ SumOfValues = result.total_display
        /\ result.total_display = AnnualizedTotal

\* C8 amended: there display_total is the annualized total and the returned
\* values add up to it to within 1e-6: a residue of the rounded share is
\* moved onto the last missing slot only when it exceeds 1e-6.
C8_Closure ==
    Partial =>
        /\ Abs(result.total_display - SumOfValues) <= eps
        /\ result.total_display = AnnualizedTotal

\* the residue was moved: two slots without override got different values
\* and the values add up to display_total
C8_Witness ==
    /\ Partial
    /\ \E s, t \in Slots \ NonNullKeys : result.values[s] # result.values[t]
    /\ SumOfValues = result.total_display

\* ---------------------------------------------------------------- C9
\* C9: in every branch the value of a slot that has a non-null override is
\* that override; the residue is never added to an explicit slot.
C9_ExplicitPreserved ==
    \A slot \in Slots \cap NonNullKeys : result.values[slot] = NonNull[slot]

\* the residue was moved while the last displayed slot is an explicit one
C9_Witness ==
    /\ Partial
    /\ month_bids[Len(month_bids)] \in NonNullKeys
    /\ \E s, t \in Slots \ NonNullKeys : result.values[s] # result.values[t]

\* --------------------------------------------------------------- C10
\* C10: explicit_slots is exactly the set of keys of overrides whose value
\* is not null.
C10_ExplicitSlots == result.explicit_bids = NonNullKeys

\* overrides with a null value, an explicit zero and a slot not displayed
C10_Witness ==
    /\ \E b \in DOMAIN overrides : overrides[b] = None
    /\ \E b \in NonNullKeys : NonNull[b] = 0
    /\ NonNullKeys \ Slots # {}
    /\ NonNullKeys \cap Slots # {}
    /\ result.explicit_bids = NonNullKeys

\* --------------------------------------------------------------- C11
\* what C11 says the annualized total of (amount, period, slot_count) is
C11_Annualized(amount, period, slot_count) ==
    LET count == IF slot_count = 0 THEN 12 ELSE slot_count
    IN  IF amount = None THEN 0
        ELSE CASE period = "Yearly"    -> amount[1]
               [] period = "Quarterly" -> 4 * amount[1]
               [] period = "Weekly"    -> 52 * amount[1]
               [] OTHER                -> count * amount[1]

\* C11: annual_total_from_period(amount, period, slot_count) is 0 for a null
\* amount, the amount for Yearly, 4 times it for Quarterly, 52 times it for
\* Weekly and slot_count times it for every other period (Monthly and the
\* unrecognized ones), a slot_count of 0 being replaced by 12.
C11_AnnualTotal ==
    /\ annual_total_from_period(year_amount, year_period, Len(month_bids))
         = C11_Annualized(year_amount, year_period, Len(month_bids))
    /\ annual_total_from_period(year_amount, year_period, DefaultMonths)
         = C11_Annualized(year_amount, year_period, 12)

\* a call with overrides for a Weekly amount shown in a limited view, whose
\* display total is the amount annualized over 52 weeks
C11_Witness ==
    /\ year_amount = Some(100)
    /\ year_period = "Weekly"
    /\ Len(month_bids) > 0
    /\ DOMAIN overrides # {}
    /\ result.total_display = 5200

\* --------------------------------------------------------------- C12
\* C12: the call never fails, whatever the amount, the period, the slots
\* (an empty list included) and the overrides (numbers or nulls): it returns
\* its four results, with one number per displayed slot.  (The share
\* division is FloatDiv, which has no value for a divisor of 0: a call that
\* divided by zero slots would have no result to compare.)
C12_Total ==
    /\ result # Raised
    /\ DOMAIN result = {"values", "total_display", "over_limit", "explicit_bids"}
    /\ DOMAIN result.values = Slots
    /\ \A slot \in Slots : result.values[slot] \in Int
    /\ result.total_display \in Int
    /\ result.over_limit \in BOOLEAN
    /\ result.explicit_bids \subseteq Bids

\* a call with no slot at all and a null override, and a call whose remainder
\* is shared while another override is null
C12_Witness ==
    \/ /\ month_bids = << >>
       /\ \E b \in DOMAIN overrides : overrides[b] = None
       /\ AnnualSet
       /\ result.values = << >>
    \/ /\ Partial
       /\ \E b \in Slots : b \in DOMAIN overrides /\ overrides[b] = None

\* --------------------------------------------------------------- C20
\* the rows of the table st that have another key than (bid, cid)
C20_OtherRows(st, bid, cid) == st \ matching_rows(st, bid, cid)
\* the BUDGETENTRYIDs of the table st
C20_Ids(st) == {r.id : r \in st}

\* C20: upsert_budget_entry(slot, category, period, amount) is keyed by
\* (slot, category): when a row of that key exists, a row of the key is
\* updated in place to the new amount and period and no row is added;
\* otherwise exactly one row is inserted; calling it a second time with the
\* same arguments changes nothing; the rows of other keys are unchanged.
C20_Upsert ==
    [][\A bid \in StoreBids, cid \in StoreCats, period \in StorePeriods,
          amount \in StoreAmounts :
        UpsertEntry(bid, cid, period, amount) =>
          /\ C20_OtherRows(store', bid, cid) = C20_OtherRows(store, bid, cid)
          /\ \E r \in matching_rows(store', bid, cid) :
                r.amount = amount /\ r.period = period
          /\ matching_rows(store, bid, cid) # {} =>
                /\ C20_Ids(store') = C20_Ids(store)
                /\ Cardinality(store') = Cardinality(store)
          /\ matching_rows(store, bid, cid) = {} =>
                /\ Cardinality(matching_rows(store', bid, cid)) = 1
                /\ Cardinality(store') = Cardinality(store) + 1
          /\ upsert_budget_entry(store', bid, cid, period, amount) = store'
      ]_allVars

\* a table in which one call updated a stored row in place and another call
\* inserted a row, the last call being an upsert
C20_Witness ==
    /\ \E i \in DOMAIN issued : issued[i].op = "upsert"
    /\ \E r \in store : r \notin StoredRows /\ r.id \in C20_Ids(StoredRows)
    /\ \E r \in store : r.id \notin C20_Ids(StoredRows)

\* ------------------------------------------------------- window claims
\* the amount of the pending edit of a key, null (None) or a number; NoEntry,
\* which is neither, when the key has no pending edit
NoEntry == <<0, 0>>
PendingAmount(ed, bid, cid) ==
    IF has_edit(ed, <<bid, cid>>) THEN edit_of(ed, <<bid, cid>>).amount ELSE NoEntry
\* the base (persisted) data has an amount for the slot of the category
BaseHas(bid, cid) == <<cid, bid>> \in DOMAIN base_budget_map
\* a month cell of the category holds a text that was rejected
HasRejectedText(cid) == \E b \in AppMonths : rows[cid].months[b] = Junk
\* the number a cell shows, an empty cell showing none
Shown(text) == IF text.k = "num" THEN text.v ELSE 0

\* --------------------------------------------------------------- C13
\* C13: clearing a month slot leaves a pending edit of null amount and the
\* slot outside the explicit slots of the recompute, entering 0 leaves a
\* pending edit of 0 and the slot explicit; a confirmed save issues, for
\* every null edit, delete_budget_entry(slot, category) and no upsert of the
\* key, after which the table has no row of the key, and for every edit of 0
\* an upsert of 0.0, after which the row of the key has amount 0.
C13_ClearVersusZero ==
    [][/\ \A cid \in RowCats, bid \in AppMonths :
            /\ EditAmount(cid, bid, Blank) =>
                  /\ PendingAmount(edits', bid, cid) = None
                  /\ bid \notin rows'[cid].explicit
            /\ EditAmount(cid, bid, Num(0)) =>
                  /\ PendingAmount(edits', bid, cid) = Some(0)
                  /\ bid \in rows'[cid].explicit
                  /\ rows'[cid].months[bid] = Num(0)
       /\ SaveOk =>
            /\ Len(issued') = Len(edits)
            /\ \A i \in DOMAIN edits :
                 LET bid == edits[i].key[1]
                     cid == edits[i].key[2]
                 IN  /\ edits[i].amount = None =>
                          /\ issued'[i] = DeleteCmd(bid, cid)
                          /\ matching_rows(store', bid, cid) = {}
                     /\ edits[i].amount = Some(0) =>
                          /\ issued'[i].op = "upsert"
                          /\ issued'[i].amount = Some(0)
                          /\ \E r \in matching_rows(store', bid, cid) : r.amount = 0
      ]_allVars

\* a save has deleted the stored row of a cleared slot and has stored a 0
\* entered in another slot
C13_Witness ==
    /\ \E i \in DOMAIN issued :
          /\ issued[i].op = "delete"
          /\ matching_rows(AppStoredRows, issued[i].bid, issued[i].cid) # {}
          /\ matching_rows(store, issued[i].bid, issued[i].cid) = {}
    /\ \E i \in DOMAIN issued :
          /\ issued[i].op = "upsert"
          /\ issued[i].amount = Some(0)
          /\ issued[i].bid \in AppMonths
    /\ edits = << >>

\* --------------------------------------------------------------- C14
\* what C14 says the override of a month slot is: the pending edit's amount
\* when there is a pending edit (null: no override), else the base amount
C14_Effective(bid, cid) ==
    IF PendingAmount(edits, bid, cid) # NoEntry THEN PendingAmount(edits, bid, cid)
    ELSE IF BaseHas(bid, cid) THEN Some(base_budget_map[<<cid, bid>>].amount)
    ELSE None

\* C14: in the row of every category, a month slot is shown as explicit, with
\* its override as value, exactly when its pending edit has a non-null
\* amount or, without a pending edit, the base data has an amount for it; a
\* slot whose pending edit is null has no override, whatever the base data.
C14_EffectiveOverrides ==
    \A cid \in RowCats, bid \in AppMonths :
        /\ bid \in rows[cid].explicit <=> C14_Effective(bid, cid) # None
        /\ (C14_Effective(bid, cid) # None /\ rows[cid].months[bid] # Junk) =>
              rows[cid].months[bid] = Num(C14_Effective(bid, cid)[1])

\* a category with a cleared slot for which the base data has an amount, and
\* a slot the pending edit gives an amount; another category with a slot that
\* has its base amount and no pending edit
C14_Witness ==
    /\ recalculating = None
    /\ \E cid \in RowCats :
         /\ \E bid \in AppMonths :
               /\ PendingAmount(edits, bid, cid) = None
               /\ BaseHas(bid, cid)
               /\ bid \notin rows[cid].explicit
         /\ \E bid \in AppMonths :
               /\ PendingAmount(edits, bid, cid) = Some(80)
               /\ rows[cid].months[bid] = Num(80)
    /\ \E cid \in RowCats, bid \in AppMonths :
         /\ PendingAmount(edits, bid, cid) = NoEntry
         /\ BaseHas(bid, cid)
         /\ bid \in rows[cid].explicit

\* --------------------------------------------------------------- C15
\* C15: a save in which a persistence call fails leaves the edits overlay as
\* it was before the save and the unsaved-changes flag set.
C15_FailedSave ==
    [][\A failing \in 1..MaxEdits :
          SaveFails(failing) =>
             /\ edits' = edits
             /\ edits' # << >>
             /\ has_unsaved_changes' = TRUE
      ]_allVars

\* a save failed at its second call, the first one being committed
C15_Witness ==
    /\ Len(issued) = 2
    /\ Len(edits) = 2
    /\ has_unsaved_changes
    /\ store # AppStoredRows

\* --------------------------------------------------------------- C16
\* C16 as stated: a text that is neither numeric nor blank, committed in a
\* month amount cell, adds or changes no pending edit, leaves the
\* unsaved-changes flag as it was, starts no recompute, and leaves the cell
\* with the value it had before.
C16_AsStated ==
    [][\A cid \in RowCats, bid \in AppMonths :
          EditAmount(cid, bid, Junk) =>
             /\ edits' = edits
             /\ has_unsaved_changes' = has_unsaved_changes
             /\ recalculating' = None
             /\ rows'[cid].months[bid] = rows[cid].months[bid]
      ]_allVars

\* --------------------------------------------------------------- C17
\* C17: while recalc_category runs, no step changes the edits overlay or the
\* unsaved-changes flag; a change notification delivered to on_item_changed
\* while the guard is set changes nothing at all; the guard is set while
\* recalc_category runs and is false once it has returned.
C17_RecomputeIsNoEdit ==
    [][/\ recalculating # None =>
             /\ recalc_guard
             /\ edits' = edits
             /\ has_unsaved_changes' = has_unsaved_changes
       /\ \A cid \in RowCats, bid \in AppMonths :
             (recalc_guard /\ ChangeNotified(cid, bid)) => UNCHANGED allVars
       /\ recalculating' = None => recalc_guard' = FALSE
      ]_allVars

\* recalc_category is running for a category whose row it has written, after
\* an edit of one of its month slots
C17_Witness ==
    /\ recalculating # None
    /\ recalc_guard
    /\ \E bid \in AppMonths :
          /\ PendingAmount(edits, bid, recalculating[1]) = Some(80)
          /\ rows[recalculating[1]].months[bid] = Num(80)

\* --------------------------------------------------------------- C18
\* the effective annual amount, period and overrides of a category, from the
\* base data and the edits overlay
C18_Amount(cid) ==
    IF PendingAmount(edits, year_bid, cid) # NoEntry
    THEN PendingAmount(edits, year_bid, cid)
    ELSE IF BaseHas(year_bid, cid) THEN Some(base_budget_map[<<cid, year_bid>>].amount)
    ELSE None
C18_Period(cid) ==
    IF has_edit(edits, <<year_bid, cid>>) THEN edit_of(edits, <<year_bid, cid>>).period
    ELSE IF BaseHas(year_bid, cid) THEN base_budget_map[<<cid, year_bid>>].period
    ELSE ""
C18_Overrides(cid) ==
    [bid \in {b \in AppMonths : C14_Effective(b, cid) # None} |-> C14_Effective(bid, cid)]
C18_Expected(cid) ==
    compute_budget_distribution(C18_Amount(cid), C18_Period(cid), app_month_bids,
                                C18_Overrides(cid))

\* C18: between two edits, for every category whose month cells hold no
\* rejected text, the month values shown, the total shown, the over-limit
\* mark and, for a leaf category, the rollup budget total are those of
\* compute_budget_distribution applied to the effective annual amount, period
\* and overrides derived from the base data and the edits overlay.
C18_DisplayIsDistribution ==
    recalculating = None =>
        \A cid \in RowCats :
            ~HasRejectedText(cid) =>
                LET d == C18_Expected(cid)
                IN  /\ \A bid \in AppMonths : Shown(rows[cid].months[bid]) = d.values[bid]
                    /\ rows[cid].total = d.total_display
                    /\ rows[cid].over = d.over_limit
                    /\ children_map[cid] = {} => category_totals[cid].budget = d.total_display

\* after an edit of the annual amount and an edit of a month slot of a leaf
\* category, its row is over the limit
C18_Witness ==
    /\ recalculating = None
    /\ \E cid \in RowCats :
          /\ children_map[cid] = {}
          /\ PendingAmount(edits, year_bid, cid) # NoEntry
          /\ \E bid \in AppMonths : PendingAmount(edits, bid, cid) = Some(80)
          /\ rows[cid].over
          /\ category_totals[cid].budget = rows[cid].total

\* --------------------------------------------------------------- C19
\* C19: every reload (refresh() as the Refresh button, a year change, an
\* account check or a database selection calls it, and the one that ends a
\* successful save) leaves the edits overlay empty and the unsaved-changes
\* flag false; a reload outside a save issues no persistence call and leaves
\* the table as it is, and a successful save issues one call for each
\* pending edit and no other.
C19_ReloadDiscardsEdits ==
    [][/\ Reload =>
             /\ edits' = << >>
             /\ has_unsaved_changes' = FALSE
             /\ issued' = << >>
             /\ store' = store
       /\ SaveOk =>
             /\ edits' = << >>
             /\ has_unsaved_changes' = FALSE
             /\ Len(issued') = Len(edits)
      ]_allVars

\* the base data was loaded again from a table that a save has changed, and no
\* edit is pending
C19_Witness ==
    /\ edits = << >>
    /\ ~has_unsaved_changes
    /\ issued = << >>
    /\ store # AppStoredRows
    /\ base_budget_map = load_budget_map(store)
    /\ n_edits = MaxEdits

\* --------------------------------------------------------------- C23
\* the slots without override, and the last of them in month_slots order
C23_Missing == Slots \ NonNullKeys
C23_Position(slot) == CHOOSE i \in 1..Len(month_bids) : month_bids[i] = slot
C23_LastMissing ==
    CHOOSE s \in C23_Missing :
        \A t \in C23_Missing : C23_Position(t) <= C23_Position(s)
\* share = (annualized_total - sum_overrides) / len(missing)
C23_Share == FloatDiv(AnnualizedTotal - SumNonNull, Cardinality(C23_Missing))
\* display_total - sum(values), the values being the overrides of the
\* displayed explicit slots and share for every missing slot
C23_Residue ==
    result.total_display
        - (SumOver(NonNull, Slots \cap NonNullKeys)
           + Cardinality(C23_Missing) * C23_Share)

\* C23: in a full view with an annual budget set, not over the limit and
\* with a missing slot, display_total is the annualized total, every missing
\* slot but the last one gets exactly share, and the last missing slot gets
\* share plus the residue whenever the residue exceeds 1e-6 in absolute value.
C23_Remainder ==
    Partial =>
        /\ result.total_display = AnnualizedTotal
        /\ \A slot \in C23_Missing \ {C23_LastMissing} :
               result.values[slot] = C23_Share
        /\ Abs(C23_Residue) > eps =>
               result.values[C23_LastMissing] = C23_Share + C23_Residue

\* several slots share a remainder that does not divide evenly, one slot
\* being explicit, and the last missing slot carries a residue above 1e-6
C23_Witness ==
    /\ Partial
    /\ Cardinality(C23_Missing) >= 2
    /\ Slots \cap NonNullKeys # {}
    /\ Abs(C23_Residue) > eps
    /\ result.values[C23_LastMissing] = C23_Share + C23_Residue
    /\ \A slot \in C23_Missing \ {C23_LastMissing} : result.values[slot] = C23_Share

\* --------------------------------------------------------------- C26
\* C26: in every branch the keys of the returned values are exactly the
\* slots of month_slots; a displayed slot to which nothing applies has the
\* value 0.0; an override of a slot that is not displayed is no value, yet
\* it is in explicit_slots and its amount counts in the sum that is compared
\* with the annualized total.
C26_KeysAreSlots ==
    /\ DOMAIN result.values = Slots
    /\ \A slot \in Slots \ NonNullKeys :
           (~AnnualSet \/ LimitedView \/ Exceeds) => result.values[slot] = 0
    /\ NonNullKeys \ Slots \subseteq result.explicit_bids
    /\ FullView => (result.over_limit <=> Exceeds)

\* an override outside the displayed slots tips the sum over the annualized
\* total, which the displayed overrides alone do not exceed
C26_Witness ==
    /\ FullView
    /\ Slots # {}
    /\ NonNullKeys \ Slots # {}
    /\ Abs(SumOver(NonNull, Slots \cap NonNullKeys)) <= Abs(AnnualizedTotal)
    /\ result.over_limit
    /\ DOMAIN result.values = Slots
    /\ NonNullKeys \ Slots \subseteq result.explicit_bids

\* --------------------------------------------------------------- C24
\* the period the claim names: that of the pending edit of the annual slot
\* (a period edit records it, an edit of the annual amount carries it on),
\* else the base stored period, else none
C24_Period(cid) ==
    IF has_edit(edits, <<year_bid, cid>>) THEN edit_of(edits, <<year_bid, cid>>).period
    ELSE IF <<cid, year_bid>> \in DOMAIN base_budget_map
    THEN base_budget_map[<<cid, year_bid>>].period
    ELSE ""
\* the amount the claim names: that of the pending edit of the annual slot,
\* null included, else the base stored amount, else null
C24_Amount(cid) ==
    IF has_edit(edits, <<year_bid, cid>>) THEN edit_of(edits, <<year_bid, cid>>).amount
    ELSE IF <<cid, year_bid>> \in DOMAIN base_budget_map
    THEN Some(base_budget_map[<<cid, year_bid>>].amount)
    ELSE None

\* C24: the annual period recalc_category uses for a category is the period
\* of the pending edit of its annual slot when there is one, else the base
\* stored period; the annual amount it uses is the amount of that pending
\* edit, null included, else the base stored amount, null when there is none.
C24_EffectiveAnnual ==
    \A cid \in RowCats :
        /\ recalc_year_per(cid, rows, edits, base_budget_map) = C24_Period(cid)
        /\ recalc_year_amt(cid, edits, base_budget_map) = C24_Amount(cid)

\* the period was edited, then the annual amount was cleared: the pending
\* edit has a null amount and the edited period, not the stored one, and
\* recalc_category has run on them
C24_Witness ==
    \E cid \in RowCats :
        /\ recalculating = Some(cid)
        /\ <<cid, year_bid>> \in DOMAIN base_budget_map
        /\ has_edit(edits, <<year_bid, cid>>)
        /\ edit_of(edits, <<year_bid, cid>>).amount = None
        /\ edit_of(edits, <<year_bid, cid>>).period # base_budget_map[<<cid, year_bid>>].period
        /\ recalc_year_per(cid, rows, edits, base_budget_map)
              = edit_of(edits, <<year_bid, cid>>).period
        /\ rows[cid].year = Blank

\* --------------------------------------------------------------- C27
\* C27: between two events, after any sequence of edits, reloads and saves,
\* the unsaved-changes flag is true exactly when the edits overlay is not empty.
C27_FlagIffEdits ==
    recalculating = None => (has_unsaved_changes <=> edits # << >>)

\* a save failed after its first call: the overlay and the flag are kept
C27_Witness ==
    /\ recalculating = None
    /\ issued # << >>
    /\ Len(edits) = 2
    /\ has_unsaved_changes

\* --------------------------------------------------------------- C28
\* what float() makes of the annual cell in a period edit: its number, 0.0
\* for a blank or unparsable text
C28_Parsed(text) == IF text.k = "num" THEN text.v ELSE 0
\* the entries of the overlay for the annual slot of the category
C28_AnnualEntries(ed, cid) == {i \in DOMAIN ed : ed[i].key = <<year_bid, cid>>}

C29_OneEntryPerKey(ed) ==
    \A i, j \in DOMAIN ed : ed[i].key = ed[j].key => i = j
\* the amount an accepted text stands for
C29_Typed(text) == IF text = Blank THEN None ELSE Some(text.v)
\* the persistence command the claim names for an entry of the overlay
C29_Command(e) ==
    IF e.amount = None
    THEN [op |-> "delete", bid |-> e.key[1], cid |-> e.key[2],
          period |-> PeriodNull, amount |-> None]
    ELSE [op |-> "upsert", bid |-> e.key[1], cid |-> e.key[2],
          period |-> e.period, amount |-> e.amount]

\* C29: the overlay holds one pending edit per (slot, category) at most, that
\* of the last accepted text; a confirmed save in which no call fails issues
\* one call per key, in the order of the overlay (delete_budget_entry for a
\* null amount, else upsert_budget_entry with the period and the amount of
\* the entry, the period of a month slot being "Monthly"), then reloads the
\* table it has written and leaves the overlay empty; a declined
\* confirmation and a save of an empty overlay issue no call and leave the
\* overlay and the table as they are.
C29_SaveIssuesOnePerKey ==
    [][/\ C29_OneEntryPerKey(edits) /\ C29_OneEntryPerKey(edits')
       /\ \A cid \in RowCats, bid \in BidSet(header_ids), text \in AmountTexts \ {Junk} :
             EditAmount(cid, bid, text) =>
                 /\ PendingAmount(edits', bid, cid) = C29_Typed(text)
                 /\ bid # year_bid => edit_of(edits', <<bid, cid>>).period = "Monthly"
                 /\ \A i \in DOMAIN edits :
                        edits[i].key # <<bid, cid>> => edits'[i] = edits[i]
       /\ SaveOk =>
             /\ Len(issued') = Len(edits)
             /\ \A i \in DOMAIN edits :
                    /\ issued'[i] = C29_Command(edits[i])
                    /\ (edits[i].key[1] # year_bid /\ edits[i].amount # None) =>
                           issued'[i].period = "Monthly"
             /\ edits' = << >>
             /\ base_budget_map' = load_budget_map(store')
             /\ \A i \in DOMAIN edits :
                    LET bid == edits[i].key[1]
                        cid == edits[i].key[2]
                    IN  IF edits[i].amount = None
                        THEN <<cid, bid>> \notin DOMAIN base_budget_map'
                        ELSE /\ <<cid, bid>> \in DOMAIN base_budget_map'
                             /\ base_budget_map'[<<cid, bid>>].amount = edits[i].amount[1]
       /\ (SaveDeclined \/ SaveNoChanges) =>
             /\ issued' = << >>
             /\ edits' = edits
             /\ store' = store
      ]_allVars

\* a confirmed save of two pending edits, a cleared slot and a month amount:
\* a delete and an upsert with period "Monthly" were issued, the overlay is empty
C29_Witness ==
    /\ Len(issued) = 2
    /\ \E i \in DOMAIN issued : issued[i].op = "delete"
    /\ \E i \in DOMAIN issued :
          /\ issued[i].op = "upsert"
          /\ issued[i].bid # year_bid
          /\ issued[i].period = "Monthly"
    /\ edits = << >>
    /\ ~has_unsaved_changes

\* --------------------------------------------------------------- C21
\* the categories without children
C21_Leaves == {c \in Categories : children_map[c] = {}}

\* C21 as stated: once the table is loaded, category_totals has an entry for
\* a category exactly when the category has no children, so that the actual
\* and budget totals of every leaf category are in the rollup and those of no
\* other category are; recalc_category writes the entry of a leaf only.
C21_AsStated ==
    /\ recalculating = None => DOMAIN category_totals = C21_Leaves
    /\ recalculating # None =>
          (recalculating[1] \in DOMAIN category_totals <=> recalculating[1] \in C21_Leaves)

\* --------------------------------------------------------------- C30
\* C30: a close with pending edits is accepted only when the user chose to
\* discard, or chose to save and the overlay is empty once save_budgets has
\* returned; when the user cancels or dismisses the dialog, declines the
\* confirmation of the save, or a call of the save fails, the close is
\* ignored and the overlay is kept.  A close with an empty overlay is
\* accepted, nothing being saved.
C30_Close ==
    [][/\ (close_event' = "accepted" /\ edits # << >>) =>
             \/ CloseWithout(DiscardButton)
             \/ CloseSaveOk /\ edits' = << >>
       /\ CloseWithout(DiscardButton) => close_event' = "accepted"
       /\ (edits # << >> /\ edits' = << >> /\ CloseSaveOk) => close_event' = "accepted"
       /\ ( \/ CloseWithout(CancelButton)
            \/ CloseWithout(NoButton)
            \/ CloseSaveDeclined
            \/ \E failing \in 1..MaxEdits : CloseSaveFails(failing) ) =>
             /\ close_event' = "ignored"
             /\ edits' = edits
             /\ edits' # << >>
             /\ has_unsaved_changes'
       /\ CloseUnchanged =>
             /\ close_event' = "accepted"
             /\ issued' = << >>
             /\ store' = store
      ]_allVars

\* the window closed after a save of two pending edits made from the dialog
\* of the close
C30_Witness ==
    /\ close_event = "accepted"
    /\ Len(issued) = 2
    /\ edits = << >>
    /\ store # AppStoredRows


\* ---- C22
\* the entries of category_totals whose field is on one side of zero
C22_Entries(field, income) ==
    {cid \in DOMAIN category_totals : (category_totals[cid][field] >= 0) = income}

\* the sum of a field over a set of entries of category_totals
C22_Sum(field, entries) ==
    SumOver([cid \in entries |-> category_totals[cid][field]], entries)

\* C22: in the rollup of the chart every entry's actual total is added to
\* actual_income when it is >= 0 and to actual_expense when it is < 0, and
\* its budget total likewise to budget_income or budget_expense; so the
\* expense buckets are <= 0, the income buckets are >= 0 and income plus
\* expense is the sum of the entries' totals.
C22_Rollup ==
    chart # << >> =>
        /\ chart.actual_income  = C22_Sum("actual", C22_Entries("actual", TRUE))
        /\ chart.actual_expense = C22_Sum("actual", C22_Entries("actual", FALSE))
        /\ chart.budget_income  = C22_Sum("budget", C22_Entries("budget", TRUE))
        /\ chart.budget_expense = C22_Sum("budget", C22_Entries("budget", FALSE))
        /\ chart.actual_expense <= 0 /\ chart.budget_expense <= 0
        /\ chart.actual_income >= 0 /\ chart.budget_income >= 0
        /\ chart.actual_income + chart.actual_expense
               = C22_Sum("actual", DOMAIN category_totals)
        /\ chart.budget_income + chart.budget_expense
               = C22_Sum("budget", DOMAIN category_totals)

\* the chart drawn again after the user picked a month, over entries of both
\* signs in the actual and in the budget totals
C22_Witness ==
    /\ chart # << >>
    /\ partial_index = 0 /\ Len(current_headers) = 6
    /\ chart.actual_income > 0 /\ chart.actual_expense < 0
    /\ chart.budget_income > 0 /\ chart.budget_expense < 0


\* ---- C25
\* the number of month columns of the table: those between "Period" and "TOTAL"
C25_Months == Len(current_headers) - 4

\* the k-th month column, from the left
C25_Column(k) == k + 2

\* the number a cell shows, nothing and a text that is no number counting 0
C25_Cell(cid, kind, col) ==
    IF sheet[cid][kind][col].k = "num" THEN sheet[cid][kind][col].v ELSE 0

\* the total of a row kind in the month columns 1..k over a set of categories
C25_UpTo(cats, kind, k) ==
    SumOver([cid \in cats |->
                SumOver([j \in 1..k |-> C25_Cell(cid, kind, C25_Column(j))], 1..k)],
            cats)

\* the sums of the per-column totals of all the categories over the month
\* columns 1..k
C25_Sums(k) ==
    [actual |-> C25_UpTo(DOMAIN sheet, "Reale", k),
     budget |-> C25_UpTo(DOMAIN sheet, "Budget", k),
     diff   |-> C25_UpTo(DOMAIN sheet, "Reale", k) - C25_UpTo(DOMAIN sheet, "Budget", k)]

\* the month column chosen as the cutoff of the partial totals
C25_Cutoff == IF partial_index < 0 THEN C25_Months ELSE partial_index + 1

\* what the summary and the chart show when they have just been computed
C25_Shown ==
    /\ summary_cumulative_mode =>
          /\ \A k \in 1..C25_Months : summary[C25_Column(k)] = C25_Sums(k)
          /\ summary[Len(current_headers) - 1] = C25_Sums(C25_Months)

\* what the chart shows when it has just been drawn
C25_Partial ==
    /\ chart.partial_actual = C25_UpTo(DOMAIN category_totals, "Reale", C25_Cutoff)
    /\ chart.partial_budget = C25_UpTo(DOMAIN category_totals, "Budget", C25_Cutoff)
    /\ chart.partial_gap = chart.partial_actual - chart.partial_budget

\* C25: in cumulative mode the summary computed for the k-th month column
\* shows the sums of the per-column actual, budget and diff totals over the
\* month columns 1..k, and the TOTAL column the sums over all the month
\* columns; the partial totals the chart is drawn with are the sums, over
\* the categories of category_totals, of the month columns up to and
\* including the cutoff column and of no later column.
C25_CumulativeAndPartial ==
    /\ (current_headers # << >> /\ n_edits = 0) => (C25_Shown /\ C25_Partial)
    /\ [][/\ ToggleSummary => C25_Shown'
          /\ (/\ partial_index' # partial_index
              /\ \E index \in 0..(MaxMonths - 1) : SelectPartialMonth(index)) => C25_Partial'
         ]_allVars

\* cumulative mode switched on over two month columns, one of them holding a
\* text that is no number, with the chart drawn for a cutoff at the first
\* month: the second column shows sums that are not its own totals, and the
\* partial totals leave the second column out
C25_Witness ==
    /\ current_headers # << >>
    /\ summary_cumulative_mode
    /\ C25_Months = 2
    /\ partial_index = 0
    /\ sheet[1].Budget[3] = Junk /\ sheet[1].Budget[4] = Num(80)
    /\ C25_Shown /\ C25_Partial
    /\ summary[4].actual # C25_UpTo(DOMAIN sheet, "Reale", 2) - C25_UpTo(DOMAIN sheet, "Reale", 1)
    /\ chart.partial_actual # C25_UpTo(DOMAIN category_totals, "Reale", 2)
    /\ chart.partial_actual # C25_UpTo(DOMAIN sheet, "Reale", 1)

====
